---- MODULE Spec2Model ----
(***************************************************************************)
(* Option-Pricing-4-Real-trads: the Heston implied-volatility binary       *)
(* (calculate_sv_v5.c) and the Black-Scholes implied-volatility solvers    *)
(* (calculate_sv_v5.c bs_implied_vol, calculate_iv_v2.c implied_vol).      *)
(*                                                                         *)
(* Numbers are fixed point.  Volatilities, times, rates and the FFT        *)
(* scalars (alpha, eta, R) are in thousandths (0.05 is 50, 1.5 is 1500).   *)
(* Prices are in units of 1e-7 dollar, so the bisection precision 1e-6 is  *)
(* 10 units; spots of about one dollar keep every product within 32 bits.  *)
(* Variances are in millionths (the square of a volatility in              *)
(* thousandths).                                                           *)
(***************************************************************************)
EXTENDS Integers, Sequences, FiniteSets, TLC

VARIABLES
    bs,     \* the Black-Scholes solver being run: arguments, locals, result
    glob,   \* the file-scope globals of calculate_sv_v5.c
    call,   \* the heston_call_fft call in progress or last returned
    hist,   \* what a caller of heston_call_fft remembers of earlier calls
    proc,   \* the calculate_sv_v5 process: position in main, locals, output
    faults, \* how many allocation failures and hardware faults have occurred
    arr     \* an array routine being run on arrays given in full

vars == <<bs, glob, call, hist, proc, faults, arr>>

----------------------------------------------------------------------------
(* Units and arithmetic helpers                                            *)

PriceScale == 10 * 1000 * 1000      \* price units per dollar
VolScale == 10 * 100                \* volatility units per 1.0
PriceSentinel == 0 - PriceScale     \* the C value -1.0 returned as a price
VolSentinel == 0 - VolScale         \* the C value -1.0 returned as a volatility

Abs(x) == IF x < 0 THEN 0 - x ELSE x
Max(x, y) == IF x >= y THEN x ELSE y
Min(x, y) == IF x <= y THEN x ELSE y

\* floor of the square root, by bisection on [lo, hi]
RECURSIVE IsqrtIn(_, _, _)
IsqrtIn(n, lo, hi) ==
    IF hi - lo <= 1 THEN lo
    ELSE LET mid == (lo + hi) \div 2
         IN IF mid * mid <= n THEN IsqrtIn(n, mid, hi) ELSE IsqrtIn(n, lo, mid)

Isqrt(n) == IF n <= 0 THEN 0 ELSE IsqrtIn(n, 0, 46341)

\* sqrt of a quantity in thousandths, in thousandths
SqrtMilli(x) == Isqrt(1000 * x)

\* exp(-x) for x in thousandths, in thousandths (Taylor, four terms)
ExpNeg(x) == 1000 - x + (x * x) \div 2000 - (x * x * x) \div 6000000

\* P * exp(-rate * T) for a price P (a multiple of 1000 units)
Discounted(P, rate, T) == (P \div 1000) * ExpNeg((rate * T) \div 1000)

----------------------------------------------------------------------------
(* Black-Scholes price and the bisection solver of calculate_sv_v5.c       *)

\* The slope of the price in the volatility, per thousandth of volatility:
\* S*sqrt(T/(2*pi)) at the money (the approximation the repository itself
\* inverts as atm_approx), damped away from the money where the true vega
\* is small.  It is positive whenever S and T are, so the price below is
\* strictly increasing in sigma.
Vega(S, K, T) ==
    LET atm == ((S \div 10000) * SqrtMilli(T) * 4) \div 1000
    IN IF 10 * Abs(K - S) <= S THEN atm
       ELSE IF 2 * Abs(K - S) <= S THEN Max(1, atm \div 10)
       ELSE Max(1, atm \div 1000)

\* fmax(0.0, S*exp(-q*T) - K*exp(-r*T))
Intrinsic(S, K, T, r, q) == Max(0, Discounted(S, q, T) - Discounted(K, r, T))

\* black_scholes_call: the guard of the source, then the closed form, which
\* is modelled by intrinsic value plus a time value linear in sigma.
black_scholes_call(S, K, T, r, q, sigma) ==
    IF sigma <= 0 \/ T <= 0 \/ S <= 0 \/ K <= 0 THEN PriceSentinel
    ELSE Intrinsic(S, K, T, r, q) + Vega(S, K, T) * sigma

vol_low_init == 1
vol_high_init == 2000
max_iter == 100
precision == 10

\* The checks bs_implied_vol makes before it bisects.
bs_entry(m, S, K, T, r, q) ==
    IF m <= 0 \/ S <= 0 \/ K <= 0 \/ T <= 0 THEN "invalid"
    ELSE IF m < Intrinsic(S, K, T, r, q) THEN "arbitrage"
    ELSE LET price_low == black_scholes_call(S, K, T, r, q, vol_low_init)
             price_high == black_scholes_call(S, K, T, r, q, vol_high_init)
         IN IF m <= price_low \/ m >= price_high THEN "nobracket" ELSE "ok"

\* An iteration that never returns from inside the loop.
bs_iterate_no_return(a, st) ==
    LET vol_mid == (st.vol_low + st.vol_high) \div 2
        price_mid == black_scholes_call(a.S, a.K, a.T, a.r, a.q, vol_mid)
    IN IF price_mid < a.m
       THEN [st EXCEPT !.vol_mid = vol_mid, !.vol_low = vol_mid, !.i = @ + 1]
       ELSE [st EXCEPT !.vol_mid = vol_mid, !.vol_high = vol_mid, !.i = @ + 1]

\* One iteration with the comparison of price_mid and the market price
\* the other way round.
bs_iterate_inverted(a, st) ==
    LET vol_mid == (st.vol_low + st.vol_high) \div 2
        price_mid == black_scholes_call(a.S, a.K, a.T, a.r, a.q, vol_mid)
    IN IF Abs(price_mid - a.m) < precision
       THEN [st EXCEPT !.vol_mid = vol_mid, !.done = TRUE, !.ret = vol_mid]
       ELSE IF price_mid > a.m
            THEN [st EXCEPT !.vol_mid = vol_mid, !.vol_low = vol_mid, !.i = @ + 1]
            ELSE [st EXCEPT !.vol_mid = vol_mid, !.vol_high = vol_mid, !.i = @ + 1]

\* One iteration of the bisection loop on the locals st.
bs_iterate(a, st) ==
    LET vol_mid == (st.vol_low + st.vol_high) \div 2
        price_mid == black_scholes_call(a.S, a.K, a.T, a.r, a.q, vol_mid)
    IN IF Abs(price_mid - a.m) < precision
       THEN [st EXCEPT !.vol_mid = vol_mid, !.done = TRUE, !.ret = vol_mid]
       ELSE IF price_mid < a.m
            THEN [st EXCEPT !.vol_mid = vol_mid, !.vol_low = vol_mid, !.i = @ + 1]
            ELSE [st EXCEPT !.vol_mid = vol_mid, !.vol_high = vol_mid, !.i = @ + 1]

BsLocals0 ==
    [vol_low |-> vol_low_init, vol_high |-> vol_high_init, vol_mid |-> 0,
     i |-> 0, done |-> FALSE, ret |-> 0]

\* The loop run to its end.  Once an iteration leaves vol_low and vol_high
\* as they were, every later one computes the same midpoint and leaves the
\* loop the same way, so the value returned after max_iter iterations is
\* that midpoint: the remaining iterations are not unfolded.
RECURSIVE bs_bisect(_, _)
bs_bisect(a, st) ==
    IF st.done THEN st.ret
    ELSE IF st.i >= max_iter THEN st.vol_mid
    ELSE LET next == bs_iterate(a, st)
         IN IF ~next.done /\ next.vol_low = st.vol_low
                          /\ next.vol_high = st.vol_high
            THEN next.vol_mid
            ELSE bs_bisect(a, next)

bs_implied_vol(m, S, K, T, r, q) ==
    IF bs_entry(m, S, K, T, r, q) # "ok" THEN VolSentinel
    ELSE bs_bisect([m |-> m, S |-> S, K |-> K, T |-> T, r |-> r, q |-> q], BsLocals0)

----------------------------------------------------------------------------
(* The standalone Black-Scholes solver of calculate_iv_v2.c                *)

\* bs_call: as black_scholes_call, with the result clamped to >= 0.  The
\* guards sigma < 0.0001 and sigma*sqrt(T) < DBL_EPSILON are below the
\* resolution of a volatility of at least one thousandth.
bs_call(S, K, T, r, q, sigma) ==
    IF sigma <= 0 \/ T <= 0 \/ S <= 0 \/ K <= 0 THEN PriceSentinel
    ELSE Max(0, Intrinsic(S, K, T, r, q) + Vega(S, K, T) * sigma)

\* bs_vega: the derivative of bs_call in sigma, per thousandth of volatility
bs_vega(S, K, T, r, q, sigma) ==
    IF sigma <= 0 \/ T <= 0 \/ S <= 0 \/ K <= 0 THEN 0 ELSE Vega(S, K, T)

\* The Newton-Raphson loop: locals [sigma, best_sigma, min_diff, i] and the
\* value returned from inside the loop, if any (ret, with done).
RECURSIVE iv_newton(_, _)
iv_newton(a, st) ==
    IF st.i >= 50 THEN st
    ELSE
      LET price == bs_call(a.S, a.K, a.T, a.r, a.q, st.sigma)
      IN IF price < 0 THEN st
         ELSE
           LET diff == price - a.m
               better == Abs(diff) < st.min_diff
               s1 == [st EXCEPT !.min_diff = IF better THEN Abs(diff) ELSE @,
                                !.best_sigma = IF better THEN st.sigma ELSE @]
               vega == bs_vega(a.S, a.K, a.T, a.r, a.q, st.sigma)
           IN IF diff = 0 THEN [s1 EXCEPT !.done = TRUE, !.ret = st.sigma]
              ELSE IF vega = 0 THEN s1
              ELSE
                LET new_sigma == st.sigma - (diff \div vega) \div 2
                IN IF new_sigma <= 1 \/ new_sigma > 1000 THEN s1
                   ELSE IF new_sigma = st.sigma
                        THEN [s1 EXCEPT !.done = TRUE, !.ret = new_sigma]
                        ELSE iv_newton(a, [s1 EXCEPT !.sigma = new_sigma, !.i = @ + 1])

\* init_vol: the initial guess from moneyness K/S and time
iv_init_vol(S, K, T) ==
    LET moneyness == K \div (S \div 1000)
        base == IF moneyness < 950 THEN 200 - (50 * (1000 - moneyness)) \div 1000
                ELSE IF moneyness > 1050 THEN 200 + (50 * (moneyness - 1000)) \div 1000
                ELSE 200
        timed == IF T < 100 THEN (base * 12) \div 10
                 ELSE IF T > 2000 THEN (base * 9) \div 10 ELSE base
    IN IF timed < 10 THEN 200 ELSE IF timed > 1000 THEN 300 ELSE timed

\* reasonable_vol: the value returned when the numerical methods fail
iv_reasonable_vol(S, K, T) ==
    LET moneyness == K \div (S \div 1000)
        base == IF moneyness < 900 THEN 150 ELSE IF moneyness > 1100 THEN 250 ELSE 200
    IN IF T < 100 THEN (base * 12) \div 10
       ELSE IF T > 2000 THEN (base * 9) \div 10 ELSE base

\* sqrt(2*pi/T) * market_price / S
atm_approx(m, S, T) ==
    (SqrtMilli((6283 * 1000) \div T) * (m \div 1000)) \div (S \div 1000)

implied_vol(m, S, K, T, r, q) ==
    IF m <= 0 \/ S <= 0 \/ K <= 0 \/ T <= 0 THEN VolSentinel
    ELSE
      LET intrinsic == Max(0, S - Discounted(K, r, T))
          discounted_S == Discounted(S, q, T)
          a == [m |-> m, S |-> S, K |-> K, T |-> T, r |-> r, q |-> q]
          init_vol == iv_init_vol(S, K, T)
      IN IF m >= discounted_S /\ Abs(m - discounted_S) < PriceScale \div 1000000 THEN 300
         ELSE IF m < intrinsic - PriceScale \div 1000000 THEN 200
         ELSE IF Abs(S - K) < S \div 1000
                 /\ atm_approx(m, S, T) >= 100 /\ atm_approx(m, S, T) <= 500
              THEN atm_approx(m, S, T)
         ELSE IF Abs(bs_call(S, K, T, r, q, init_vol) - m) < PriceScale \div 1000
              THEN init_vol
         ELSE
           LET st == iv_newton(a, [sigma |-> init_vol, best_sigma |-> init_vol,
                                   min_diff |-> 2147483647, i |-> 0,
                                   done |-> FALSE, ret |-> 0])
           IN IF st.done THEN st.ret
              ELSE IF st.best_sigma > 10 /\ st.best_sigma < 1000
                      /\ st.min_diff < PriceScale \div 10
                   THEN st.best_sigma
              ELSE iv_reasonable_vol(S, K, T)

----------------------------------------------------------------------------
(* The file-scope state of calculate_sv_v5.c                               *)

\* g_error_jmp_buf: the function whose setjmp filled it, and whether that
\* function's frame is still active
JmpBuf(frame, live) == [frame |-> frame, live |-> live]

\* The tag of a strike grid: the arguments and the FFT configuration of the
\* build that computed it.
GridKey(S, r, q, T, v0, kappa, theta, sigma, rho, n, R, alpha, eta) ==
    [S |-> S, r |-> r, q |-> q, T |-> T, v0 |-> v0, kappa |-> kappa,
     theta |-> theta, sigma |-> sigma, rho |-> rho, n |-> n, R |-> R,
     alpha |-> alpha, eta |-> eta]

NoKey == GridKey(0, 0, 0, 0, 0, 0, 0, 0, 0, 0, 0, 0, 0)

\* What the arrays strikes[] and prices[] hold: nothing (NULL), memory fresh
\* from malloc ("uninit"), the grid of a completed build ("built", with its
\* tag and the number of entries the build wrote), or the leftovers of an
\* extraction loop that a fault interrupted ("torn").  A build that wrote
\* fewer entries than the arrays are long leaves the entries behind them as
\* they were: the grid of key tail when an earlier build had filled the
\* arrays, and otherwise not written by any build.  junk is what a read of
\* an entry that no build wrote gives.
Grid(state, key, filled, tail, junk) ==
    [state |-> state, key |-> key, filled |-> filled, tail |-> tail,
     junk |-> junk]

NoGrid == Grid("none", NoKey, 0, NoKey, 0)

\* static FFTCache g_cache = {...}; prices and strikes are the allocated
\* lengths of the two arrays, 0 for NULL
Cache0 ==
    [S |-> 0, r |-> 0, q |-> 0, T |-> 0, v0 |-> 0, kappa |-> 0, theta |-> 0,
     sigma |-> 0, rho |-> 0, prices |-> 0, strikes |-> 0, num_strikes |-> 0,
     is_valid |-> FALSE, fft_n |-> 0, log_strike_range |-> 0, alpha |-> 0,
     eta |-> 0, grid |-> NoGrid]

\* static FFTPrecomputed g_precomputed = {...}
Precomputed0 ==
    [simpson_weights |-> 0, exp_terms |-> 0, is_valid |-> FALSE, fft_n |-> 0,
     eta |-> 0, alpha |-> 0, S |-> 0]

\* The globals at program start.  g_cache_tolerance 1e-5 is 100 price units.
\* sig_handler is the disposition of SIGSEGV and SIGFPE; overflow
\* records that a build wrote its grid past the end of the cache arrays.
Glob0 ==
    [g_found_good_match |-> FALSE,
     g_error_jmp_buf |-> JmpBuf("none", FALSE),
     g_using_error_handler |-> FALSE,
     g_fft_n |-> 4096, g_log_strike_range |-> 3000, g_alpha |-> 1500,
     g_eta |-> 50, g_cache_tolerance |-> 100,
     g_cache |-> Cache0, g_precomputed |-> Precomputed0,
     sig_handler |-> "default", overflow |-> FALSE]

\* a function returns: a jump buffer its setjmp filled now names a dead frame
ReturnFrom(G, frame) ==
    IF G.g_error_jmp_buf.frame = frame
    THEN [G EXCEPT !.g_error_jmp_buf = JmpBuf(frame, FALSE)]
    ELSE G

\* fabs(x - y) < g_cache_tolerance, for x, y in units of 1e-7 * scale
Within(G, x, y, scale) == Abs(x - y) * scale < G.g_cache_tolerance

MilliUnits == 10 * 1000     \* one thousandth, in units of 1e-7

----------------------------------------------------------------------------
(* The FFT pricer of calculate_sv_v5.c.  What the environment decides (an  *)
(* allocation that fails, a plan that cannot be created, a hardware fault  *)
(* inside a setjmp region) is the argument o of each operator.             *)

\* The call price at strike K read off the grid tagged key.  The transform
\* is not computed: its value is modelled by the Black-Scholes price at
\* sqrt(v0) (the approximation heston_call_fft itself falls back to), moved
\* by the other Heston parameters and by the discretisation (N, eta, alpha,
\* R), and clamped to >= 0 as the extraction loop does.
HestonGridPrice(key, K) ==
    LET base == black_scholes_call(key.S, K, key.T, key.r, key.q, Isqrt(key.v0))
        smile == ((key.rho * key.sigma) \div 1000 + key.kappa \div 100)
                   * (key.S \div 100000)
        discretisation == (1000 * key.eta) \div key.n + key.alpha \div 500
                            + key.R \div 1000
    IN Max(0, base + smile + discretisation)

\* cleanup_precomputed_values
cleanup_precomputed_values(G) ==
    [G EXCEPT !.g_precomputed.simpson_weights = 0,
              !.g_precomputed.exp_terms = 0,
              !.g_precomputed.is_valid = FALSE]

\* precompute_fft_values(S)
precompute_fft_values(G, S, o) ==
    LET p == G.g_precomputed
    IN IF p.is_valid /\ p.fft_n = G.g_fft_n /\ p.eta = G.g_eta
          /\ p.alpha = G.g_alpha /\ Within(G, p.S, S, 1)
       THEN G
       ELSE IF o = "pre_alloc_fail"
       THEN cleanup_precomputed_values(G)
       ELSE
         LET G1 == [cleanup_precomputed_values(G) EXCEPT
                      !.g_precomputed.simpson_weights = G.g_fft_n,
                      !.g_precomputed.exp_terms = G.g_fft_n,
                      !.g_using_error_handler = TRUE,
                      !.g_error_jmp_buf = JmpBuf("precompute_fft_values", TRUE)]
         IN IF o = "pre_fault"
            THEN ReturnFrom([cleanup_precomputed_values(G1) EXCEPT
                               !.g_using_error_handler = FALSE],
                            "precompute_fft_values")
            ELSE ReturnFrom([G1 EXCEPT
                               !.g_using_error_handler = FALSE,
                               !.g_precomputed.fft_n = G.g_fft_n,
                               !.g_precomputed.eta = G.g_eta,
                               !.g_precomputed.alpha = G.g_alpha,
                               !.g_precomputed.S = S,
                               !.g_precomputed.is_valid = TRUE],
                            "precompute_fft_values")

\* the cache-hit test of init_fft_cache
cache_hit(G, S, r, q, T) ==
    LET c == G.g_cache
    IN /\ c.is_valid
       /\ Within(G, c.S, S, 1)
       /\ Within(G, c.r, r, MilliUnits)
       /\ Within(G, c.q, q, MilliUnits)
       /\ Within(G, c.T, T, MilliUnits)
       /\ c.fft_n = G.g_fft_n
       /\ Within(G, c.log_strike_range, G.g_log_strike_range, MilliUnits)
       /\ Within(G, c.alpha, G.g_alpha, MilliUnits)
       /\ Within(G, c.eta, G.g_eta, MilliUnits)

\* init_fft_cache from "Free previous cache" to the allocation of the two
\* arrays; the result's g_cache.prices is 0 when the allocation failed
init_cache_arrays(G, o, junk) ==
    LET c == G.g_cache
        G1 == IF c.is_valid /\ (c.fft_n # G.g_fft_n \/ c.num_strikes # G.g_fft_n)
              THEN [G EXCEPT !.g_cache.prices = 0, !.g_cache.strikes = 0,
                             !.g_cache.grid = NoGrid]
              ELSE G
    IN IF G1.g_cache.prices # 0 THEN G1
       ELSE IF o = "cache_alloc_fail"
       THEN [G1 EXCEPT !.g_cache.num_strikes = G.g_fft_n,
                       !.g_cache.is_valid = FALSE]
       ELSE [G1 EXCEPT !.g_cache.num_strikes = G.g_fft_n,
                       !.g_cache.prices = G.g_fft_n,
                       !.g_cache.strikes = G.g_fft_n,
                       !.g_cache.grid = Grid("uninit", NoKey, 0, NoKey, junk)]

\* init_fft_cache(S, r, q, T, v0, kappa, theta, sigma, rho)
init_fft_cache(G, S, r, q, T, v0, kappa, theta, sigma, rho, o, junk) ==
    IF cache_hit(G, S, r, q, T) THEN G
    ELSE
      LET G1 == init_cache_arrays(G, o, junk)
      IN IF G1.g_cache.prices = 0 THEN G1
         ELSE IF o = "fftw_alloc_fail"
         THEN [G1 EXCEPT !.g_cache.is_valid = FALSE]
         ELSE
           LET G2 == precompute_fft_values(G1, S, o)
           IN IF ~G2.g_precomputed.is_valid
              THEN [G2 EXCEPT !.g_cache.is_valid = FALSE]
              ELSE
                LET G3 == [G2 EXCEPT
                             !.g_using_error_handler = TRUE,
                             !.g_error_jmp_buf = JmpBuf("init_fft_cache", TRUE)]
                    key == GridKey(S, r, q, T, v0, kappa, theta, sigma, rho,
                                   G.g_fft_n, G.g_log_strike_range,
                                   G.g_alpha, G.g_eta)
                    past == G.g_fft_n > G2.g_cache.prices
                    old == G2.g_cache.grid
                    \* the entries behind the ones this build writes
                    tail == IF G.g_fft_n >= G2.g_cache.prices THEN NoKey
                            ELSE IF old.state = "built"
                                    /\ old.filled >= G2.g_cache.prices
                            THEN old.key
                            ELSE IF old.state = "built" /\ old.filled > G.g_fft_n
                            THEN old.tail
                            ELSE NoKey
                IN CASE o \in {"fault_fill", "fault_exec"} ->
                          ReturnFrom([G3 EXCEPT
                              !.g_cache.is_valid = FALSE,
                              !.g_using_error_handler = FALSE],
                            "init_fft_cache")
                     [] o = "plan_fail" ->
                          ReturnFrom([G3 EXCEPT
                              !.g_using_error_handler = FALSE],
                            "init_fft_cache")
                     [] o = "fault_extract" ->
                          ReturnFrom([G3 EXCEPT
                              !.g_cache.grid = Grid("torn", NoKey, 0, NoKey, old.junk),
                              !.overflow = @ \/ past,
                              !.g_cache.is_valid = FALSE,
                              !.g_using_error_handler = FALSE],
                            "init_fft_cache")
                     [] OTHER ->
                          ReturnFrom([G3 EXCEPT
                              !.g_using_error_handler = FALSE,
                              !.g_cache.grid = Grid("built", key, G.g_fft_n, tail, old.junk),
                              !.overflow = @ \/ past,
                              !.g_cache.S = S, !.g_cache.r = r, !.g_cache.q = q,
                              !.g_cache.T = T, !.g_cache.v0 = v0,
                              !.g_cache.kappa = kappa, !.g_cache.theta = theta,
                              !.g_cache.sigma = sigma, !.g_cache.rho = rho,
                              !.g_cache.fft_n = G.g_fft_n,
                              !.g_cache.log_strike_range = G.g_log_strike_range,
                              !.g_cache.alpha = G.g_alpha,
                              !.g_cache.eta = G.g_eta,
                              !.g_cache.is_valid = TRUE],
                            "init_fft_cache")

\* A double that is not finite (NaN or an infinity)
NonFinite == 2147483647

isfinite(x) == x # NonFinite

\* What a read of memory that no build has written can produce: zero, or
\* a bit pattern that is not a finite double
GarbagePrices == {0, NonFinite}

\* exp(R) for the two values g_log_strike_range takes
ExpRange(R) == IF R >= 4000 THEN 54 ELSE 20

\* the price at K on the grid tagged key; a strike outside the grid gets
\* the price at the nearest end of it
GridLookup(key, K) ==
    HestonGridPrice(key, Max(key.S \div ExpRange(key.R),
                             Min(key.S * ExpRange(key.R), K)))

\* get_cached_option_price(K).  The bounds test and the binary search run
\* over num_strikes entries.  When the last build wrote fewer, the search
\* starts at an entry that build did not write: with the upper half of an
\* earlier grid there, a strike at or above that grid's middle (its spot)
\* is found in the earlier grid; with memory no build wrote there, the
\* result is whatever that memory holds.
get_cached_option_price(G, K) ==
    LET c == G.g_cache
    IN IF ~c.is_valid \/ c.prices = 0 \/ c.strikes = 0 THEN PriceSentinel
       ELSE IF c.grid.state # "built" THEN c.grid.junk
       ELSE IF c.grid.filled >= c.num_strikes THEN GridLookup(c.grid.key, K)
       ELSE IF c.grid.tail = NoKey THEN c.grid.junk
       ELSE IF K >= c.grid.tail.S THEN GridLookup(c.grid.tail, K)
       ELSE GridLookup(c.grid.key, K)

\* is_challenging_parameter_set(S, K, T, v0, kappa, theta, sigma, rho);
\* v0 in millionths
is_challenging_parameter_set(S, K, T, v0, kappa, theta, sigma, rho) ==
    \/ K > 2 * S \/ 2 * K < S
    \/ T < 150 /\ v0 > 40000
    \/ sigma > 1000 \/ Abs(rho) > 900

\* a selector that picks the grid size relative to the current one
adapt_relative(G, S, K, T) ==
    IF 10 * K > 15 * S \/ 10 * K < 7 * S \/ T < 100 \/ T > 2000
    THEN [G EXCEPT !.g_fft_n = IF @ = 8192 THEN 4096 ELSE 8192]
    ELSE [G EXCEPT !.g_fft_n = IF @ = 4096 THEN 2048 ELSE 4096]

\* adapt_fft_parameters(S, K, T)
adapt_fft_parameters(G, S, K, T) ==
    LET G1 == IF 10 * K > 15 * S \/ 10 * K < 7 * S
              THEN [G EXCEPT !.g_fft_n = 8192, !.g_log_strike_range = 4000]
              ELSE G
        G2 == IF T < 100 THEN [G1 EXCEPT !.g_eta = 25, !.g_alpha = 1250]
              ELSE G1
    IN IF T > 2000 THEN [G2 EXCEPT !.g_eta = 100] ELSE G2

\* heston_call_fft before its first init_fft_cache call
heston_selected(G, a) ==
    IF is_challenging_parameter_set(a.S, a.K, a.T, a.v0, a.kappa, a.theta,
                                    a.sigma, a.rho)
    THEN adapt_fft_parameters(G, a.S, a.K, a.T)
    ELSE G

\* heston_call_fft up to the return of its first init_fft_cache call
heston_first_attempt(G, a, o, junk) ==
    init_fft_cache(heston_selected(G, a), a.S, a.r, a.q, a.T, a.v0, a.kappa,
                   a.theta, a.sigma, a.rho, o, junk)

\* the retry configurations in the other order
RetryConfigSwapped(k) ==
    IF k = 1 THEN [n |-> 2048, alpha |-> 1250, eta |-> 75]
             ELSE [n |-> 8192, alpha |-> 1000, eta |-> 100]

\* the two retry configurations of heston_call_fft
RetryConfig(k) ==
    IF k = 1 THEN [n |-> 8192, alpha |-> 1000, eta |-> 100]
             ELSE [n |-> 2048, alpha |-> 1250, eta |-> 75]

\* heston_call_fft: the assignments before retry k
heston_retry_config(G, k) ==
    [G EXCEPT !.g_fft_n = RetryConfig(k).n, !.g_alpha = RetryConfig(k).alpha,
              !.g_eta = RetryConfig(k).eta]

\* heston_call_fft: retry k of init_fft_cache under its configuration
heston_retry(G, a, k, o, junk) ==
    init_fft_cache(heston_retry_config(G, k), a.S, a.r, a.q, a.T, a.v0,
                   a.kappa, a.theta, a.sigma, a.rho, o, junk)

\* heston_call_fft: the Black-Scholes fallback at sqrt(v0)
heston_bs_fallback(a) ==
    black_scholes_call(a.S, a.K, a.T, a.r, a.q, Isqrt(a.v0))

\* a caller that returns what the lookup gave
unchecked_result(a, price) == price

\* heston_call_fft: the value returned for the price the lookup gave
heston_result(a, price) ==
    IF price < 0 \/ ~isfinite(price) THEN heston_bs_fallback(a) ELSE price

----------------------------------------------------------------------------
(* The solvers as a state machine: bs_implied_vol one loop iteration per   *)
(* step, and the calculate_iv_v2 binary (main and implied_vol) in one step *)

\* Option profiles and market prices the solvers are run on.
BsSpots == {0, PriceScale}
BsStrikes == {0, PriceScale \div 2, PriceScale, (13 * PriceScale) \div 10,
              (25 * PriceScale) \div 10}
BsTimes == {0, 80, 1000}
BsRates == {0, 50}
BsYields == {0, 20}
\* volatilities whose price is offered as market price (0.001 and 2.0 are
\* the ends of the solver's interval, 0.01 and 2.0 those of the round trip)
BsSigmas == {1, 10, 20, 200, 1000, 1999, 2000}

BsArgs(m, S, K, T, r, q) == [m |-> m, S |-> S, K |-> K, T |-> T, r |-> r, q |-> q]

BsStart(a, sigma0) ==
    [pc |-> "start", fn |-> "none", a |-> a, sigma0 |-> sigma0,
     st |-> BsLocals0, ret |-> 0, exit |-> 0]

BsIdle == BsStart(BsArgs(0, 0, 0, 0, 0, 0), 0)

BsInputs ==
    UNION { LET lower == Intrinsic(S, K, T, r, q)
                top == black_scholes_call(S, K, T, r, q, vol_high_init)
            IN { BsStart(BsArgs(black_scholes_call(S, K, T, r, q, sg), S, K, T, r, q), sg)
                   : sg \in BsSigmas }
               \cup { BsStart(BsArgs(m, S, K, T, r, q), 0)
                        : m \in {0 - PriceScale, 0, lower - 1000, top + 1000,
                                 black_scholes_call(S, K, T, r, q, 200) + precision} }
          : <<S, K, T, r, q>> \in BsSpots \X BsStrikes \X BsTimes \X BsRates \X BsYields }

\* bs_implied_vol up to its loop: the three early returns, or the loop entered
BsEnter ==
    /\ bs.pc = "start"
    /\ LET e == bs_entry(bs.a.m, bs.a.S, bs.a.K, bs.a.T, bs.a.r, bs.a.q)
       IN bs' = IF e = "ok"
                THEN [bs EXCEPT !.pc = "loop", !.fn = "bs_implied_vol"]
                ELSE [bs EXCEPT !.pc = "ret", !.fn = "bs_implied_vol",
                                !.ret = VolSentinel]
    /\ UNCHANGED <<arr, glob, call, hist, proc, faults>>

\* one iteration of the for loop; the return from inside it
BsIterate ==
    /\ bs.pc = "loop"
    /\ bs.st.i < max_iter
    /\ LET st == bs_iterate(bs.a, bs.st)
       IN bs' = IF st.done THEN [bs EXCEPT !.pc = "ret", !.st = st, !.ret = st.ret]
                ELSE [bs EXCEPT !.st = st]
    /\ UNCHANGED <<arr, glob, call, hist, proc, faults>>

\* the loop ran max_iter times: return vol_mid
BsExhaust ==
    /\ bs.pc = "loop"
    /\ bs.st.i >= max_iter
    /\ bs' = [bs EXCEPT !.pc = "ret", !.ret = bs.st.vol_mid]
    /\ UNCHANGED <<arr, glob, call, hist, proc, faults>>

\* calculate_iv_v2 main on parsed arguments: its positivity checks, then
\* implied_vol, then exit code 1 for a negative result and 0 otherwise
IvMain ==
    /\ bs.pc = "start"
    /\ LET a == bs.a
           iv == implied_vol(a.m, a.S, a.K, a.T, a.r, a.q)
       IN bs' = IF a.m <= 0 \/ a.S <= 0 \/ a.K <= 0 \/ a.T <= 0
                THEN [bs EXCEPT !.pc = "ret", !.fn = "implied_vol",
                                !.ret = VolSentinel, !.exit = 1]
                ELSE [bs EXCEPT !.pc = "ret", !.fn = "implied_vol", !.ret = iv,
                                !.exit = IF iv < 0 THEN 1 ELSE 0]
    /\ UNCHANGED <<arr, glob, call, hist, proc, faults>>


----------------------------------------------------------------------------
(* heston_call_fft as a state machine: one step per init_fft_cache call of *)
(* its retry ladder, then the cache lookup.                                *)

HArgs(S, K, T, r, q, v0, kappa, theta, sigma, rho) ==
    [S |-> S, K |-> K, T |-> T, r |-> r, q |-> q, v0 |-> v0, kappa |-> kappa,
     theta |-> theta, sigma |-> sigma, rho |-> rho]

NoArgs == HArgs(0, 0, 0, 0, 0, 0, 0, 0, 0, 0)

\* log: per init_fft_cache call made, whether it was a cache hit, the
\* configuration it ran under, whether it left the cache valid and whether
\* it completed a build.
\* src: where the returned price came from.
\* again: "same" when the call before this one had the same arguments,
\* "clean" when moreover it made a single init_fft_cache call, which hit the
\* cache or completed a build; "no" otherwise.
CallIdle ==
    [pc |-> "idle", a |-> NoArgs, log |-> <<>>, ret |-> 0, src |-> "none",
     again |-> "no"]

CallStart(a, again) ==
    [pc |-> "enter", a |-> a, log |-> <<>>, ret |-> 0, src |-> "none",
     again |-> again]

\* G0: the globals the init_fft_cache call started from, G1: as it left them
Event(a, G0, G1) ==
    LET hit == cache_hit(G0, a.S, a.r, a.q, a.T)
        key == GridKey(a.S, a.r, a.q, a.T, a.v0, a.kappa, a.theta, a.sigma,
                       a.rho, G0.g_fft_n, G0.g_log_strike_range, G0.g_alpha,
                       G0.g_eta)
    IN [hit |-> hit, n |-> G0.g_fft_n, R |-> G0.g_log_strike_range,
        alpha |-> G0.g_alpha, eta |-> G0.g_eta,
        valid |-> G1.g_cache.is_valid,
        precomputed |-> G1.g_precomputed # G0.g_precomputed,
        built |-> ~hit /\ G1.g_cache.is_valid
                  /\ G1.g_cache.grid.state = "built"
                  /\ G1.g_cache.grid.key = key]

\* init_fft_cache would allocate the cache arrays if it missed
Allocates(G) ==
    \/ G.g_cache.prices = 0
    \/ G.g_cache.is_valid /\ (G.g_cache.fft_n # G.g_fft_n
                               \/ G.g_cache.num_strikes # G.g_fft_n)

\* what memory fresh from malloc can hold, when the call allocates any
JunkChoices(G) == IF Allocates(G) THEN GarbagePrices ELSE {0}

\* what the environment can do to one init_fft_cache call
Outcomes ==
    {"ok", "cache_alloc_fail", "fftw_alloc_fail", "pre_alloc_fail",
     "pre_fault", "fault_fill", "plan_fail", "fault_exec", "fault_extract"}

MaxFaults == 3

\* the environment's choice o costs one of the MaxFaults failures unless "ok"
Charged(o) ==
    /\ o # "ok" => faults < MaxFaults
    /\ faults' = IF o = "ok" THEN faults ELSE faults + 1

\* is_challenging_parameter_set, adapt_fft_parameters, first init_fft_cache
HestonEnter ==
    /\ call.pc = "enter"
    /\ \E o \in Outcomes, junk \in JunkChoices(heston_selected(glob, call.a)) :
         /\ Charged(o)
         /\ LET a == call.a
                G0 == heston_selected(glob, a)
                G1 == heston_first_attempt(glob, a, o, junk)
            IN /\ glob' = G1
               /\ call' = [call EXCEPT
                    !.pc = IF G1.g_cache.is_valid THEN "lookup" ELSE "retry1",
                    !.log = <<Event(a, G0, G1)>>]
    /\ UNCHANGED <<arr, bs, hist, proc>>

\* the cache is not valid: retry under (8192, 1.0, 0.1), then (2048, 1.25,
\* 0.075), then return the Black-Scholes price at sqrt(v0)
HestonRetry ==
    /\ call.pc \in {"retry1", "retry2"}
    /\ \E o \in Outcomes,
          junk \in JunkChoices(heston_retry_config(glob,
                                  IF call.pc = "retry1" THEN 1 ELSE 2)) :
         /\ Charged(o)
         /\ LET a == call.a
                k == IF call.pc = "retry1" THEN 1 ELSE 2
                G0 == heston_retry_config(glob, k)
                G1 == heston_retry(glob, a, k, o, junk)
                log == Append(call.log, Event(a, G0, G1))
            IN /\ glob' = G1
               /\ call' = IF G1.g_cache.is_valid
                          THEN [call EXCEPT !.pc = "lookup", !.log = log]
                          ELSE IF k = 1
                          THEN [call EXCEPT !.pc = "retry2", !.log = log]
                          ELSE [call EXCEPT !.pc = "done", !.log = log,
                                            !.ret = heston_bs_fallback(a),
                                            !.src = "ladder_fallback"]
    /\ UNCHANGED <<arr, bs, hist, proc>>

----------------------------------------------------------------------------
(* The calculate_sv_v5 process                                             *)

\* the local variables of implied_vol_sv; idx counts the grid tuples priced
\* and resid records the test_diff of each of them, in the order priced
SvLocals0 ==
    [bs_iv |-> 0, init_v0 |-> 0, init_kappa |-> 0, best_diff |-> NonFinite,
     best_v |-> 0, best_kappa |-> 0, best_theta |-> 0, best_sigma |-> 0,
     best_rho |-> 0, idx |-> 0, resid |-> <<>>]

\* a command-line word: a decimal number, or a word strtod cannot convert
\* (no digits) or reports as out of range (ERANGE)
Num(v) == [kind |-> "num", val |-> v]
Junk == [kind |-> "junk", val |-> 0]

\* safe_atof(str), in units of 1/unit: the number, or -1.0 for a word that
\* is not one
safe_atof(tok, unit) == IF tok.kind = "num" THEN tok.val ELSE 0 - unit

\* an option word of the command line: the option getopt_long reports for it
\* ("n" for --fft-n=..., "r" --log-strike-range, "a" --alpha, "e" --eta,
\* "t" --cache-tolerance, "d" --debug, "h" --help, "?" an unknown option)
\* and its argument
Opt(flag, arg) == [flag |-> flag, arg |-> arg]

\* an environment variable that is not set
Unset == [kind |-> "unset", val |-> 0]

\* the environment: FFT_N, FFT_LOG_STRIKE_RANGE, FFT_ALPHA, FFT_ETA,
\* FFT_CACHE_TOLERANCE
Env(n, r, a, e, t) == [n |-> n, r |-> r, a |-> a, e |-> e, t |-> t]

NoEnv == Env(Unset, Unset, Unset, Unset, Unset)

\* atoi(optarg), atof(optarg): 0 for a word that does not start a number
atof(tok) == IF tok.kind = "num" THEN tok.val ELSE 0

\* is_power_of_two: n > 0 and (n & (n - 1)) == 0
RECURSIVE is_power_of_two(_)
is_power_of_two(n) ==
    IF n <= 0 THEN FALSE
    ELSE IF n = 1 THEN TRUE
    ELSE n % 2 = 0 /\ is_power_of_two(n \div 2)

\* attempt: how many times main's setjmp ladder has been re-entered.
\* tried: the (N, alpha, eta) in force at each call of implied_vol_sv.
\* src: which statement of main or implied_vol_sv produced iv.
\* opts: the option words before the positional ones, optind: how many of
\* them getopt_long has consumed, env: the FFT_* environment variables,
\* warned: how many "Warning:" lines main has written to stderr.
ProcStart(argv) ==
    [pc |-> "start", argv |-> argv, m |-> 0, S |-> 0, K |-> 0, T |-> 0,
     r |-> 0, q |-> 0, attempt |-> 0, tried |-> <<>>, iv |-> VolSentinel,
     src |-> "none", exit_code |-> 0 - 1, stdout |-> <<>>, sv |-> SvLocals0,
     opts |-> <<>>, optind |-> 0, env |-> NoEnv, warned |-> 0]

\* no process: heston_call_fft is driven by a library caller
ProcLibrary == [ProcStart(<<>>) EXCEPT !.pc = "library"]

\* error_handler(sig) for a fault raised now: where control goes.  With the
\* default disposition the process is killed.  With g_using_error_handler
\* set and the jump buffer's frame active, control resumes in that frame.
\* Otherwise the handler returns into the faulting instruction (or jumps
\* into a dead frame): undefined, the process is killed or never finishes.
Landing(G) ==
    IF G.sig_handler = "default" THEN {"killed"}
    ELSE IF G.g_using_error_handler /\ G.g_error_jmp_buf.live
    THEN {G.g_error_jmp_buf.frame}
    ELSE {"killed", "hung"}

\* the process and the globals after a fault lands: the else branches of
\* main's three setjmp calls, the else branch of implied_vol_sv's
Landed(P, G, landing) ==
    CASE landing = "main" ->
           IF P.attempt < 2
           THEN [proc |-> [P EXCEPT !.attempt = @ + 1, !.pc = "sv_entry"],
                 glob |-> [G EXCEPT
                     !.g_fft_n = RetryConfig(P.attempt + 1).n,
                     !.g_alpha = RetryConfig(P.attempt + 1).alpha,
                     !.g_eta = RetryConfig(P.attempt + 1).eta,
                     !.g_error_jmp_buf = JmpBuf("main", TRUE)]]
           ELSE [proc |-> [P EXCEPT !.attempt = 3, !.pc = "fallback_bs"],
                 glob |-> [G EXCEPT !.g_error_jmp_buf = JmpBuf("main", TRUE)]]
      [] landing = "implied_vol_sv" ->
           [proc |-> [P EXCEPT !.iv = P.sv.bs_iv, !.src = "sv_exception",
                               !.pc = "finish"],
            glob |-> ReturnFrom([G EXCEPT !.g_using_error_handler = FALSE],
                                "implied_vol_sv")]
      [] OTHER -> [proc |-> [P EXCEPT !.pc = landing], glob |-> G]

\* a fault is raised at a statement reached with locals P and globals G
Fault(P, G) ==
    /\ faults < MaxFaults
    /\ faults' = faults + 1
    /\ \E landing \in Landing(G) :
         /\ proc' = Landed(P, G, landing).proc
         /\ glob' = Landed(P, G, landing).glob

\* the call in progress is abandoned by a fault
Aborted(c) == IF c.pc \in {"idle", "done"} THEN c ELSE [c EXCEPT !.pc = "aborted"]

\* get_cached_option_price and the check of its result
HestonLookup ==
    /\ call.pc = "lookup"
    /\ \/ LET price == get_cached_option_price(glob, call.a.K)
          IN
            /\ call' = [call EXCEPT
                 !.pc = "done",
                 !.ret = heston_result(call.a, price),
                 !.src = IF price < 0 \/ ~isfinite(price)
                         THEN "lookup_fallback" ELSE "grid"]
            /\ UNCHANGED <<glob, proc, faults>>
       \/ /\ Fault(proc, glob)
          /\ call' = Aborted(call)
    /\ UNCHANGED <<arr, bs, hist>>

NUM_V0 == 5
NUM_KAPPA == 3
NUM_SIGMA == 3
NUM_RHO == 3

NumTuples == NUM_V0 * NUM_KAPPA * NUM_SIGMA * NUM_RHO

v0_values(init_v0) ==
    <<init_v0, (init_v0 * 85) \div 100, (init_v0 * 115) \div 100,
      (init_v0 * 70) \div 100, (init_v0 * 130) \div 100>>

kappa_values(init_kappa) == <<init_kappa, (init_kappa * 3) \div 2, init_kappa \div 2>>

sigma_values == <<200, 400, 600>>

rho_values == <<0 - 700, 0 - 400, 0>>

\* the arguments of the heston_call_fft call of the four nested loops when
\* idx tuples have been priced: rho innermost, then sigma, kappa, v0
GridTuple(P) ==
    LET i == P.sv.idx
        test_v0 == v0_values(P.sv.init_v0)[(i \div (NUM_KAPPA * NUM_SIGMA * NUM_RHO)) + 1]
        test_kappa == kappa_values(P.sv.init_kappa)[((i \div (NUM_SIGMA * NUM_RHO)) % NUM_KAPPA) + 1]
        test_sigma == sigma_values[((i \div NUM_RHO) % NUM_SIGMA) + 1]
        test_rho == rho_values[(i % NUM_RHO) + 1]
    IN HArgs(P.S, P.K, P.T, P.r, P.q, test_v0, test_kappa, test_v0,
             test_sigma, test_rho)

\* implied_vol_sv: the seeds of the search from the anchor bs_iv
SvSeeds(P, bs_iv) ==
    LET fwd == Discounted(P.S, P.q, P.T)
        dK == Discounted(P.K, P.r, P.T)
        sq == bs_iv * bs_iv
        init_v0 == IF 10 * fwd > 11 * dK THEN (sq * 11) \div 10
                   ELSE IF 10 * fwd < 9 * dK THEN (sq * 105) \div 100
                   ELSE sq
        kappa0 == IF 10 * fwd > 11 * dK THEN 2000
                  ELSE IF 10 * fwd < 9 * dK THEN 1500
                  ELSE 1000
        init_kappa == IF P.T < 100 THEN 3000
                      ELSE IF P.T > 1000 THEN 500
                      ELSE kappa0
        init_theta == IF 10 * fwd > 11 * dK THEN (sq * 105) \div 100 ELSE sq
    IN [SvLocals0 EXCEPT !.bs_iv = bs_iv, !.init_v0 = init_v0,
                         !.init_kappa = init_kappa, !.best_v = init_v0,
                         !.best_kappa = init_kappa, !.best_theta = init_theta,
                         !.best_sigma = 400, !.best_rho = 0 - 700]

\* the switch without the validity tests: the value is always assigned
apply_unchecked(G, o) ==
    LET v == atof(o.arg)
    IN CASE o.flag = "n" -> [G EXCEPT !.g_fft_n = v]
         [] o.flag = "r" -> [G EXCEPT !.g_log_strike_range = v]
         [] o.flag = "a" -> [G EXCEPT !.g_alpha = v]
         [] o.flag = "e" -> [G EXCEPT !.g_eta = v]
         [] o.flag = "t" -> [G EXCEPT !.g_cache_tolerance = v]
         [] OTHER -> G

\* one case of main's switch on an option that sets an FFT global: the
\* value is assigned when it is valid, and a warning is written otherwise
apply_option(G, o) ==
    LET v == atof(o.arg)
    IN CASE o.flag = "n" ->
              IF is_power_of_two(v) THEN [G EXCEPT !.g_fft_n = v] ELSE G
         [] o.flag = "r" ->
              IF v > 0 THEN [G EXCEPT !.g_log_strike_range = v] ELSE G
         [] o.flag = "a" -> IF v > 0 THEN [G EXCEPT !.g_alpha = v] ELSE G
         [] o.flag = "e" -> IF v > 0 THEN [G EXCEPT !.g_eta = v] ELSE G
         [] o.flag = "t" ->
              IF v > 0 THEN [G EXCEPT !.g_cache_tolerance = v] ELSE G
         [] OTHER -> G

\* the option's value passes the test of its case
option_valid(o) ==
    IF o.flag = "n" THEN is_power_of_two(atof(o.arg)) ELSE atof(o.arg) > 0

\* one iteration of the getopt_long loop of main
MainOption ==
    /\ proc.pc = "options"
    /\ proc.optind < Len(proc.opts)
    /\ LET o == proc.opts[proc.optind + 1]
           P == [proc EXCEPT !.optind = @ + 1]
       IN IF o.flag = "h"
          THEN /\ proc' = [P EXCEPT !.pc = "exited", !.exit_code = 0,
                                    !.src = "help"]
               /\ glob' = glob
          ELSE IF o.flag = "?"
          THEN /\ proc' = [P EXCEPT !.pc = "exited", !.exit_code = 1,
                                    !.src = "usage"]
               /\ glob' = glob
          ELSE IF o.flag = "d"
          THEN /\ proc' = P
               /\ glob' = glob
          ELSE /\ proc' = IF option_valid(o) THEN P
                          ELSE [P EXCEPT !.warned = @ + 1]
               /\ glob' = apply_option(glob, o)
    /\ UNCHANGED <<arr, bs, call, hist, faults>>

\* getopt_long returned -1: the check of the number of positional words
MainArguments ==
    /\ proc.pc = "options"
    /\ proc.optind >= Len(proc.opts)
    /\ proc' = IF Len(proc.argv) # 6
               THEN [proc EXCEPT !.pc = "exited", !.exit_code = 1,
                                 !.src = "usage"]
               ELSE [proc EXCEPT !.pc = "start"]
    /\ UNCHANGED <<arr, bs, glob, call, hist, faults>>

\* main from signal() to the first setjmp: parse, the parse-error check,
\* the adaptive selector, the positivity checks
MainStart ==
    /\ proc.pc = "start"
    /\ LET m == safe_atof(proc.argv[1], PriceScale)
           S == safe_atof(proc.argv[2], PriceScale)
           K == safe_atof(proc.argv[3], PriceScale)
           T == safe_atof(proc.argv[4], VolScale)
           r == safe_atof(proc.argv[5], VolScale)
           q == safe_atof(proc.argv[6], VolScale)
           P == [proc EXCEPT !.m = m, !.S = S, !.K = K, !.T = T, !.r = r, !.q = q]
           G0 == [glob EXCEPT !.sig_handler = "error_handler"]
           G1 == IF is_challenging_parameter_set(S, K, T, 40000, 1000, 40000,
                                                 400, 0 - 700)
                 THEN adapt_fft_parameters(G0, S, K, T)
                 ELSE G0
       IN IF m < 0 \/ S < 0 \/ K < 0 \/ T < 0
          THEN /\ proc' = [P EXCEPT !.pc = "exited", !.exit_code = 1,
                                    !.src = "parse"]
               /\ glob' = G0
          ELSE IF m <= 0 \/ S <= 0 \/ K <= 0 \/ T <= 0
          THEN /\ proc' = [P EXCEPT !.pc = "exited", !.exit_code = 1,
                                    !.src = "validation"]
               /\ glob' = G1
          ELSE /\ proc' = [P EXCEPT !.pc = "sv_entry"]
               /\ glob' = [G1 EXCEPT !.g_using_error_handler = TRUE,
                                     !.g_error_jmp_buf = JmpBuf("main", TRUE)]
    /\ UNCHANGED <<arr, bs, call, hist, faults>>

\* implied_vol_sv up to its setjmp: the anchor, the seeds
SvEntry ==
    /\ proc.pc = "sv_entry"
    /\ LET P == [proc EXCEPT !.tried = Append(@,
                    [n |-> glob.g_fft_n, alpha |-> glob.g_alpha,
                     eta |-> glob.g_eta])]
           bs_iv == bs_implied_vol(P.m, P.S, P.K, P.T, P.r, P.q)
       IN \/ /\ proc' = IF bs_iv < 0
                        THEN [P EXCEPT !.iv = VolSentinel, !.src = "sv_anchor",
                                       !.pc = "finish"]
                        ELSE [P EXCEPT !.sv = SvSeeds(P, bs_iv), !.pc = "grid"]
             /\ glob' = IF bs_iv < 0 THEN glob
                        ELSE [glob EXCEPT
                                !.g_found_good_match = FALSE,
                                !.g_using_error_handler = TRUE,
                                !.g_error_jmp_buf = JmpBuf("implied_vol_sv", TRUE)]
             /\ UNCHANGED faults
          \/ Fault(P, glob)
    /\ UNCHANGED <<arr, bs, call, hist>>

\* the loop conditions hold: call heston_call_fft on the next tuple
SvGridCall ==
    /\ proc.pc = "grid"
    /\ proc.sv.idx < NumTuples /\ ~glob.g_found_good_match
    /\ call' = CallStart(GridTuple(proc), "no")
    /\ proc' = [proc EXCEPT !.pc = "pricing"]
    /\ UNCHANGED <<arr, bs, glob, hist, faults>>

\* a loop body that never sets g_found_good_match
never_good_match(test_diff, market_price) == FALSE

\* test_diff < 0.005 * market_price
good_match(test_diff, market_price) == test_diff <= (market_price - 1) \div 200

\* a comparison that also replaces the best tuple by one as good
not_worse(test_diff, best_diff) == test_diff <= best_diff

\* test_diff < best_diff
is_better(test_diff, best_diff) == test_diff < best_diff

\* the loop body after heston_call_fft returned
SvGridCompare ==
    /\ proc.pc = "pricing" /\ call.pc = "done"
    /\ LET test_diff == Abs(call.ret - proc.m)
           better == is_better(test_diff, proc.sv.best_diff)
           close == better /\ good_match(test_diff, proc.m)
       IN /\ proc' = [proc EXCEPT
                !.pc = "grid",
                !.sv = IF better
                       THEN [@ EXCEPT !.best_v = call.a.v0,
                                      !.best_kappa = call.a.kappa,
                                      !.best_theta = call.a.theta,
                                      !.best_rho = call.a.rho,
                                      !.best_sigma = call.a.sigma,
                                      !.best_diff = test_diff,
                                      !.idx = @ + 1,
                                      !.resid = Append(@, test_diff)]
                       ELSE [@ EXCEPT !.idx = @ + 1,
                                      !.resid = Append(@, test_diff)]]
          /\ glob' = IF close THEN [glob EXCEPT !.g_found_good_match = TRUE]
                     ELSE glob
    /\ call' = CallIdle
    /\ UNCHANGED <<arr, bs, hist, faults>>

\* implied_vol_sv after the loops: the result checks
SvFinish ==
    /\ proc.pc = "grid"
    /\ proc.sv.idx >= NumTuples \/ glob.g_found_good_match
    /\ LET G == [glob EXCEPT !.g_using_error_handler = FALSE]
           sv_vol == Isqrt(proc.sv.best_v)
           poor == proc.sv.best_diff > proc.m \div 10
       IN \/ /\ proc' = IF poor
                        THEN [proc EXCEPT !.iv = proc.sv.bs_iv, !.pc = "finish",
                                          !.src = "sv_poor"]
                        ELSE IF sv_vol < 50 \/ sv_vol > 1500
                        THEN [proc EXCEPT !.iv = proc.sv.bs_iv, !.pc = "finish",
                                          !.src = "sv_sanity"]
                        ELSE [proc EXCEPT !.iv = sv_vol, !.pc = "finish",
                                          !.src = "sv"]
             /\ glob' = ReturnFrom(G, "implied_vol_sv")
             /\ UNCHANGED faults
          \/ Fault(proc, G)
    /\ UNCHANGED <<arr, bs, call, hist>>

\* main after the third setjmp returned nonzero
MainFallback ==
    /\ proc.pc = "fallback_bs"
    /\ LET iv == bs_implied_vol(proc.m, proc.S, proc.K, proc.T, proc.r, proc.q)
       IN \/ /\ proc' = IF iv < 0
                        THEN [proc EXCEPT !.iv = 250, !.src = "default",
                                          !.pc = "finish"]
                        ELSE [proc EXCEPT !.iv = iv, !.src = "bs_fallback",
                                          !.pc = "finish"]
             /\ UNCHANGED <<glob, faults>>
          \/ Fault(proc, glob)
    /\ UNCHANGED <<arr, bs, call, hist>>

\* cleanup_fft_cache
cleanup_fft_cache(G) ==
    cleanup_precomputed_values(
        [G EXCEPT !.g_cache.prices = 0, !.g_cache.strikes = 0,
                  !.g_cache.grid = NoGrid,
                  !.g_cache.is_valid = FALSE])

\* printf("%.6f\n", iv): the line, as the number in millionths
Format6(iv) == iv * 1000

\* main from "g_using_error_handler = false" to its return
MainFinish ==
    /\ proc.pc = "finish"
    /\ glob' = cleanup_fft_cache([glob EXCEPT
                  !.g_using_error_handler = FALSE,
                  !.g_error_jmp_buf = JmpBuf(@.frame, FALSE),
                  !.sig_handler = "default"])
    /\ proc' = IF proc.iv < 0
               THEN [proc EXCEPT !.pc = "exited", !.exit_code = 1]
               ELSE [proc EXCEPT !.pc = "exited", !.exit_code = 0,
                                 !.stdout = <<Format6(proc.iv)>>]
    /\ UNCHANGED <<arr, bs, call, hist, faults>>

----------------------------------------------------------------------------
(* A library caller of heston_call_fft                                     *)

\* one earlier call the caller chose to remember, and the price it returned
Hist0 == [set |-> FALSE, a |-> NoArgs, ret |-> 0]

\* an at-the-money one-year call at two variances, and a short-dated far
\* out-of-the-money call, which the adaptive selector reconfigures the FFT
\* for (N, R, eta and alpha)
FftArgs ==
    { HArgs(PriceScale, PriceScale, 1000, 50, 0, 40000, 1000, 40000, 400, 0 - 700),
      HArgs(PriceScale, PriceScale, 1000, 50, 0, 90000, 1000, 90000, 400, 0 - 700),
      HArgs(PriceScale, (25 * PriceScale) \div 10, 80, 50, 0, 90000, 1000,
            90000, 400, 0 - 700) }

CleanCall(c) == Len(c.log) = 1 /\ (c.log[1].hit \/ c.log[1].built)

\* the caller calls heston_call_fft(a)
FftInvoke ==
    /\ proc.pc = "library"
    /\ call.pc \in {"idle", "done"}
    /\ \E a \in FftArgs, keep \in BOOLEAN :
         /\ call' = CallStart(a, IF call.pc = "idle" \/ call.a # a THEN "no"
                                  ELSE IF CleanCall(call) THEN "clean"
                                  ELSE "same")
         /\ hist' = IF keep /\ call.pc = "done" /\ ~hist.set
                    THEN [set |-> TRUE, a |-> call.a, ret |-> call.ret]
                    ELSE hist
    /\ UNCHANGED <<arr, bs, glob, proc, faults>>

----------------------------------------------------------------------------
(* get_cached_option_price and the Simpson weight loop of                  *)
(* precompute_fft_values, run on arrays given element by element, and the  *)
(* FFTW buffers and plan of one init_fft_cache call.  Arrays are           *)
(* sequences: the C index i is position i + 1.  Strikes are in units of    *)
(* StrikeUnit.                                                             *)

StrikeUnit == PriceScale \div 100

\* an FFTW buffer or plan: whether it was obtained, and how often released
NoBuffer == [made |-> FALSE, released |-> 0]

\* a: the arguments of the heston_call_fft call that makes the lookup;
\* call_ret: the value that call returns
ArrIdle ==
    [fn |-> "none", pc |-> "idle", is_valid |-> FALSE, strikes |-> <<>>,
     prices |-> <<>>, K |-> 0, idx_low |-> 0, idx_high |-> 0, ret |-> 0,
     a |-> NoArgs, call_ret |-> 0,
     n |-> 0, i |-> 0, simpson_weights |-> <<>>,
     o |-> "ok", in |-> NoBuffer, out |-> NoBuffer, plan |-> NoBuffer,
     p |-> "null"]

\* heston_call_fft for strike K on spot 0.4, one year, variance 0.04
LookupArgs(K) ==
    HArgs(40 * StrikeUnit, K * StrikeUnit, 1000, 50, 0, 40000, 1000, 40000,
          400, 0 - 700)

\* a call get_cached_option_price(K) on the cache (is_valid, strikes, prices)
LookupStart(is_valid, strikes, prices, K) ==
    [ArrIdle EXCEPT !.fn = "get_cached_option_price", !.pc = "start",
                    !.is_valid = is_valid, !.strikes = strikes,
                    !.prices = prices, !.K = K, !.a = LookupArgs(K)]

\* precompute_fft_values at its weight loop, with g_fft_n = n
WeightsStart(n) ==
    [ArrIdle EXCEPT !.fn = "precompute_fft_values", !.pc = "weights", !.n = n]

\* get_cached_option_price up to its binary search: the validity test and
\* the two out-of-range returns
LookupEnter ==
    /\ arr.fn = "get_cached_option_price" /\ arr.pc = "start"
    /\ LET num_strikes == Len(arr.strikes)
       IN arr' = IF ~arr.is_valid
                 THEN [arr EXCEPT !.pc = "ret", !.ret = PriceSentinel]
                 ELSE IF arr.K <= arr.strikes[1]
                 THEN [arr EXCEPT !.pc = "ret", !.ret = arr.prices[1]]
                 ELSE IF arr.K >= arr.strikes[num_strikes]
                 THEN [arr EXCEPT !.pc = "ret", !.ret = arr.prices[num_strikes]]
                 ELSE [arr EXCEPT !.pc = "search", !.idx_low = 0,
                                  !.idx_high = num_strikes - 1]
    /\ UNCHANGED <<bs, glob, call, hist, proc, faults>>

\* one iteration of the binary search
LookupStep ==
    /\ arr.pc = "search"
    /\ arr.idx_high - arr.idx_low > 1
    /\ LET mid == (arr.idx_low + arr.idx_high) \div 2
       IN arr' = IF arr.strikes[mid + 1] < arr.K
                 THEN [arr EXCEPT !.idx_low = mid]
                 ELSE [arr EXCEPT !.idx_high = mid]
    /\ UNCHANGED <<bs, glob, call, hist, proc, faults>>

\* the price at the nearer of the two strikes
nearest_price(K, K_low, K_high, price_low, price_high) ==
    IF 2 * (K - K_low) < K_high - K_low THEN price_low ELSE price_high

\* price_low + weight * (price_high - price_low) for
\* weight = (K - K_low) / (K_high - K_low)
interpolate(K, K_low, K_high, price_low, price_high) ==
    price_low + ((K - K_low) * (price_high - price_low)) \div (K_high - K_low)

\* after the search: the finiteness test and the interpolation
LookupInterpolate ==
    /\ arr.pc = "search"
    /\ arr.idx_high - arr.idx_low <= 1
    /\ LET K_low == arr.strikes[arr.idx_low + 1]
           K_high == arr.strikes[arr.idx_high + 1]
           price_low == arr.prices[arr.idx_low + 1]
           price_high == arr.prices[arr.idx_high + 1]
       IN arr' = IF ~isfinite(price_low) \/ ~isfinite(price_high)
                 THEN [arr EXCEPT !.pc = "ret", !.ret = PriceSentinel]
                 ELSE [arr EXCEPT !.pc = "ret",
                         !.ret = interpolate(arr.K, K_low, K_high, price_low,
                                             price_high)]
    /\ UNCHANGED <<bs, glob, call, hist, proc, faults>>

\* heston_call_fft after get_cached_option_price returned: the test of the
\* price and the Black-Scholes fallback
LookupChecked ==
    /\ arr.fn = "get_cached_option_price" /\ arr.pc = "ret"
    /\ arr' = [arr EXCEPT !.pc = "returned",
                          !.call_ret = heston_result(arr.a, arr.ret)]
    /\ UNCHANGED <<bs, glob, call, hist, proc, faults>>

\* init_fft_cache at "Initialize FFTW arrays", in a call to which the
\* environment does o; in, out, plan: the two fftw_malloc buffers and the
\* plan; p: the local variable p as the code reads it
BuildStart(o) ==
    [ArrIdle EXCEPT !.fn = "init_fft_cache", !.pc = "fftw_alloc", !.o = o]

Release(b) == [b EXCEPT !.released = @ + 1]

\* the spot the build is for
BuildSpot == 40 * StrikeUnit

\* the two fftw_malloc calls and the return when one of them failed
BuildAllocate ==
    /\ arr.fn = "init_fft_cache" /\ arr.pc = "fftw_alloc"
    /\ \E in_ok, out_ok \in BOOLEAN :
         /\ (in_ok /\ out_ok) <=> arr.o # "fftw_alloc_fail"
         /\ LET in == [made |-> in_ok, released |-> 0]
                out == [made |-> out_ok, released |-> 0]
            IN arr' = IF in_ok /\ out_ok
                      THEN [arr EXCEPT !.in = in, !.out = out,
                                       !.pc = "precompute"]
                      ELSE [arr EXCEPT
                              !.in = IF in_ok THEN Release(in) ELSE in,
                              !.out = IF out_ok THEN Release(out) ELSE out,
                              !.pc = "returned"]
    /\ UNCHANGED <<bs, glob, call, hist, proc, faults>>

\* precompute_fft_values and the return when it failed
BuildPrecompute ==
    /\ arr.fn = "init_fft_cache" /\ arr.pc = "precompute"
    /\ arr' = IF arr.o \in {"pre_alloc_fail", "pre_fault"}
              THEN [arr EXCEPT !.in = Release(@), !.out = Release(@),
                               !.pc = "returned"]
              ELSE [arr EXCEPT !.pc = "arm"]
    /\ glob' = precompute_fft_values(glob, BuildSpot, arr.o)
    /\ UNCHANGED <<bs, call, hist, proc, faults>>

\* "g_using_error_handler = true", the statement before the setjmp
BuildArm ==
    /\ arr.fn = "init_fft_cache" /\ arr.pc = "arm"
    /\ arr' = [arr EXCEPT !.pc = "transform"]
    /\ glob' = [glob EXCEPT !.g_using_error_handler = TRUE]
    /\ UNCHANGED <<bs, call, hist, proc, faults>>

\* the setjmp and its region: the fill loop, the plan, fftw_execute and
\* the extraction loop.  A fault leaves it for the else branch of the
\* setjmp; a plan that cannot be created returns from inside it.
BuildTransform ==
    /\ arr.fn = "init_fft_cache" /\ arr.pc = "transform"
    /\ LET G == [glob EXCEPT !.g_error_jmp_buf = JmpBuf("init_fft_cache", TRUE)]
       IN glob' = IF arr.o = "plan_fail"
                  THEN ReturnFrom([G EXCEPT !.g_using_error_handler = FALSE],
                                  "init_fft_cache")
                  ELSE G
    /\ LET plan == [made |-> TRUE, released |-> 0]
       IN arr' = CASE arr.o = "fault_fill" -> [arr EXCEPT !.pc = "caught"]
                   [] arr.o = "plan_fail" ->
                        [arr EXCEPT !.in = Release(@), !.out = Release(@),
                                    !.pc = "returned"]
                   [] arr.o \in {"fault_exec", "fault_extract"} ->
                        [arr EXCEPT !.plan = plan, !.p = "plan",
                                    !.pc = "caught"]
                   [] OTHER ->
                        [arr EXCEPT !.plan = plan, !.p = "plan",
                                    !.pc = "built"]
    /\ UNCHANGED <<bs, call, hist, proc, faults>>

\* the else branch of the setjmp.  in and out were set before the setjmp;
\* p was assigned after it and is not volatile, so after the longjmp it
\* holds either the plan or the NULL it held at the setjmp.
BuildCaught ==
    /\ arr.fn = "init_fft_cache" /\ arr.pc = "caught"
    /\ \E p \in {"null", arr.p} :
         arr' = [arr EXCEPT
                   !.p = p,
                   !.in = IF @.made THEN Release(@) ELSE @,
                   !.out = IF @.made THEN Release(@) ELSE @,
                   !.plan = IF p = "plan" THEN Release(@) ELSE @,
                   !.pc = "returned"]
    /\ glob' = ReturnFrom([glob EXCEPT !.g_using_error_handler = FALSE],
                          "init_fft_cache")
    /\ UNCHANGED <<bs, call, hist, proc, faults>>

\* "g_using_error_handler = false" and "Clean up FFTW resources" after
\* the setjmp region completed
BuildCleanup ==
    /\ arr.fn = "init_fft_cache" /\ arr.pc = "built"
    /\ arr' = [arr EXCEPT
                 !.plan = IF arr.p = "plan" THEN Release(@) ELSE @,
                 !.in = IF @.made THEN Release(@) ELSE @,
                 !.out = IF @.made THEN Release(@) ELSE @,
                 !.pc = "returned"]
    /\ glob' = ReturnFrom([glob EXCEPT !.g_using_error_handler = FALSE],
                          "init_fft_cache")
    /\ UNCHANGED <<bs, call, hist, proc, faults>>

\* the weight for index i, in thirds
simpson_weight(i) == IF i = 0 THEN 1 ELSE IF i % 2 = 1 THEN 4 ELSE 2

\* one iteration of the loop that fills simpson_weights
WeightStep ==
    /\ arr.pc = "weights"
    /\ arr.i < arr.n
    /\ arr' = [arr EXCEPT !.simpson_weights = Append(@, simpson_weight(arr.i)),
                          !.i = @ + 1,
                          !.pc = IF arr.i + 1 < arr.n THEN "weights" ELSE "ret"]
    /\ UNCHANGED <<bs, glob, call, hist, proc, faults>>

----------------------------------------------------------------------------
(* Specifications                                                          *)

\* the command lines given to calculate_sv_v5: option price from a
\* volatility or off the curve, spot 1, three strikes, three expiries
ProcProfiles ==
    {<<PriceScale, PriceScale, 1000>>,
     <<PriceScale, (25 * PriceScale) \div 10, 80>>,
     <<PriceScale, (13 * PriceScale) \div 10, 2500>>}

ProcSigmas == {20, 200, 500, 1000, 1800}

\* an at-the-money one-year query priced at volatility 0.2, in which one
\* word at a time is replaced by one that strtod cannot convert
ProcGoodArgv ==
    <<Num(black_scholes_call(PriceScale, PriceScale, 1000, 50, 0, 200)),
      Num(PriceScale), Num(PriceScale), Num(1000), Num(50), Num(0)>>

ProcInputs ==
    UNION { { <<Num(black_scholes_call(p[1], p[2], p[3], 50, 0, sg)),
                Num(p[1]), Num(p[2]), Num(p[3]), Num(50), Num(0)>>
                : sg \in ProcSigmas }
            \cup { <<Num(3 * PriceScale), Num(p[1]), Num(p[2]), Num(p[3]),
                     Num(50), Num(0)>>,
                   <<Num(0), Num(p[1]), Num(p[2]), Num(p[3]), Num(50), Num(0)>>,
                   <<Num(PriceScale \div 10), Num(0), Num(p[2]), Num(p[3]),
                     Num(50), Num(0)>>,
                   <<Num(PriceScale \div 10), Num(p[1]), Num(p[2]), Num(0),
                     Num(50), Num(0)>>,
                   <<Num(0 - PriceScale \div 10), Num(p[1]), Num(p[2]),
                     Num(p[3]), Num(50), Num(0)>>,
                   <<Junk, Num(p[1]), Num(p[2]), Num(p[3]), Num(50), Num(0)>> }
          : p \in ProcProfiles }
    \cup { [i \in 1..6 |-> IF i = bad THEN Junk ELSE ProcGoodArgv[i]]
             : bad \in 2..6 }

\* one run of the calculate_sv_v5 binary
Init ==
    /\ proc \in {ProcStart(argv) : argv \in ProcInputs}
    /\ glob = Glob0
    /\ call = CallIdle
    /\ hist = Hist0
    /\ bs = BsIdle
    /\ faults = 0
    /\ arr = ArrIdle

Next ==
    \/ MainStart \/ SvEntry \/ SvGridCall \/ SvGridCompare \/ SvFinish
    \/ MainFallback \/ MainFinish
    \/ HestonEnter \/ HestonRetry \/ HestonLookup

Spec == Init /\ [][Next]_vars

\* the option words main is given: each FFT option with a valid value, a
\* value its test rejects and a word that is not a number
OptWords ==
    { Opt("n", Num(8192)), Opt("n", Num(1000)), Opt("n", Num(0 - 4)),
      Opt("n", Junk),
      Opt("r", Num(4000)), Opt("r", Num(0)), Opt("r", Junk),
      Opt("a", Num(1250)), Opt("a", Num(0 - 1500)),
      Opt("e", Num(100)), Opt("e", Num(0)),
      Opt("t", Num(1000)), Opt("t", Num(0 - 100)),
      Opt("d", Junk), Opt("h", Junk), Opt("?", Junk) }

MaxOpts == 2

OptLists == UNION { [1..k -> OptWords] : k \in 0..MaxOpts }

\* the environments main is started in: nothing set, every variable set to
\* a valid value, every variable set to a value its test rejects
Envs ==
    { NoEnv,
      Env(Num(2048), Num(5000), Num(1100), Num(25), Num(10)),
      Env(Num(3000), Num(0), Num(0 - 1000), Junk, Num(0)) }

\* the positional words: all six, or one short
OptArgvs == {ProcGoodArgv, SubSeq(ProcGoodArgv, 1, 5)}

\* calculate_sv_v5 from the start of main to the end of option processing
InitOpts ==
    /\ proc \in { [ProcStart(argv) EXCEPT !.pc = "options", !.opts = opts,
                                          !.env = env]
                   : argv \in OptArgvs, opts \in OptLists, env \in Envs }
    /\ glob = Glob0
    /\ call = CallIdle
    /\ hist = Hist0
    /\ bs = BsIdle
    /\ faults = 0
    /\ arr = ArrIdle

NextOpts == MainOption \/ MainArguments

SpecOpts == InitOpts /\ [][NextOpts]_vars

\* heston_call_fft called any number of times, in a process whose signal
\* handlers are installed
InitFFT ==
    /\ proc = ProcLibrary
    /\ glob = [Glob0 EXCEPT !.sig_handler = "error_handler"]
    /\ call = CallIdle
    /\ hist = Hist0
    /\ bs = BsIdle
    /\ faults = 0
    /\ arr = ArrIdle

NextFFT == FftInvoke \/ HestonEnter \/ HestonRetry \/ HestonLookup

SpecFFT == InitFFT /\ [][NextFFT]_vars

\* the two Black-Scholes solvers on one input each
InitBS ==
    /\ bs \in BsInputs
    /\ glob = Glob0
    /\ call = CallIdle
    /\ hist = Hist0
    /\ proc = ProcLibrary
    /\ faults = 0
    /\ arr = ArrIdle

NextBS == BsEnter \/ BsIterate \/ BsExhaust \/ IvMain

SpecBS == InitBS /\ [][NextBS]_vars

\* caches of two to MaxStrikes strikes in strictly ascending order, each
\* price zero, positive or non-finite, and strikes asked for below, on,
\* between and above the cached ones
MaxStrikes == 4

StrikeGrid == <<10, 20, 40, 80, 160, 320>>

LookupPrices == {0, 30, 70, NonFinite}

LookupStrikes == {5, 10, 15, 20, 25, 40, 60, 80, 100, 160, 200, 320, 400}

LookupInputs ==
    UNION { { LookupStart(v, SubSeq(StrikeGrid, 1, k), prices, K)
                : v \in BOOLEAN, prices \in [1..k -> LookupPrices],
                  K \in LookupStrikes }
            : k \in 2..MaxStrikes }

\* grid sizes g_fft_n can take: powers of two
WeightSizes == {1, 2, 4, 8, 16}

InitArrays ==
    /\ arr \in LookupInputs \cup { WeightsStart(n) : n \in WeightSizes }
                          \cup { BuildStart(o) : o \in Outcomes }
    /\ glob = Glob0
    /\ call = CallIdle
    /\ hist = Hist0
    /\ proc = ProcLibrary
    /\ bs = BsIdle
    /\ faults = 0

NextArrays ==
    \/ LookupEnter \/ LookupStep \/ LookupInterpolate \/ LookupChecked
    \/ WeightStep
    \/ BuildAllocate \/ BuildPrecompute \/ BuildArm \/ BuildTransform \/ BuildCaught
    \/ BuildCleanup

SpecArrays == InitArrays /\ [][NextArrays]_vars

----------------------------------------------------------------------------
(* Claims about the Black-Scholes solvers (checked under SpecBS)           *)

\* the solver has returned, and its inputs passed the positivity check
BsReturnedOnPositive(fn) ==
    /\ bs.pc = "ret" /\ bs.fn = fn
    /\ bs.a.m > 0 /\ bs.a.S > 0 /\ bs.a.K > 0 /\ bs.a.T > 0

BsPriceAt(sigma) == black_scholes_call(bs.a.S, bs.a.K, bs.a.T, bs.a.r, bs.a.q, sigma)

\* C8: for inputs that pass the positivity and no-arbitrage checks,
\* bs_implied_vol returns the sentinel exactly when the market price lies
\* outside the closed interval [C(0.001), C(2.0)], and for every market price
\* inside it, endpoints included, a volatility in [0.001, 2.0].
C8_SentinelExactlyOutsideClosedBracket ==
    (BsReturnedOnPositive("bs_implied_vol")
       /\ bs.a.m >= Intrinsic(bs.a.S, bs.a.K, bs.a.T, bs.a.r, bs.a.q))
    => LET outside == bs.a.m < BsPriceAt(vol_low_init)
                      \/ bs.a.m > BsPriceAt(vol_high_init)
       IN /\ (bs.ret = VolSentinel) <=> outside
          /\ ~outside => (bs.ret >= vol_low_init /\ bs.ret <= vol_high_init)

\* C9: BS round trip: for a valid profile and every sigma in [0.01, 2.0],
\* bs_implied_vol applied to the price of sigma returns a volatility, not
\* the sentinel, within 1e-4 of sigma.
C9_RoundTripWithinTolerance ==
    (BsReturnedOnPositive("bs_implied_vol") /\ bs.sigma0 >= 10 /\ bs.sigma0 <= 2000)
    => /\ bs.ret # VolSentinel
       /\ 10000 * Abs(bs.ret - bs.sigma0) <= VolScale

\* C10: a market price below the no-arbitrage lower bound
\* max(0, S*exp(-qT) - K*exp(-rT)) is surfaced by the Black-Scholes solver
\* as an error (the sentinel, exit code 1 from the binary), never answered
\* with a volatility.
C10_BelowLowerBoundIsAnError ==
    (bs.pc = "ret" /\ bs.a.m > 0 /\ bs.a.S > 0 /\ bs.a.K > 0 /\ bs.a.T > 0
       /\ bs.a.m < Intrinsic(bs.a.S, bs.a.K, bs.a.T, bs.a.r, bs.a.q))
    => /\ bs.ret = VolSentinel
       /\ bs.fn = "implied_vol" => bs.exit = 1

\* the midpoint v prices within 1e-6 of the market price
BsWithin(v) == Abs(BsPriceAt(v) - bs.a.m) < 10

\* the state of bs_implied_vol inside or after its loop
BsLoopState ==
    /\ bs.st.i <= 100
    /\ (bs.pc = "ret" /\ bs.st.done)
         => bs.ret = bs.st.vol_mid /\ BsWithin(bs.ret) /\ bs.st.i < 100
    /\ (bs.pc = "ret" /\ ~bs.st.done /\ bs.st.i > 0)
         => bs.ret = bs.st.vol_mid /\ bs.st.i = 100

\* a step of bs_implied_vol from inside its loop
BsLoopStep ==
    bs.pc = "loop" =>
        LET mid == (bs.st.vol_low + bs.st.vol_high) \div 2
        IN IF bs.st.i = 100
           THEN bs'.pc = "ret" /\ bs'.ret = bs.st.vol_mid /\ bs'.st = bs.st
           ELSE /\ bs'.st.vol_mid = mid
                /\ IF BsWithin(mid)
                   THEN bs'.pc = "ret" /\ bs'.ret = mid /\ bs'.st.i = bs.st.i
                   ELSE bs'.pc = "loop" /\ bs'.st.i = bs.st.i + 1

\* C17: bs_implied_vol terminates after at most 100 bisection iterations:
\* every iteration whose midpoint does not price within 1e-6 of the market
\* price is counted and the count never exceeds 100; the loop returns the
\* first midpoint at which |C(mid) - m| < 1e-6, and after 100 iterations
\* without one it returns the midpoint of the 100th.
C17_BisectionBoundedReturnsFirstCloseMidpoint ==
    [](bs.fn = "bs_implied_vol" => BsLoopState) /\ [][BsLoopStep]_vars

\* the loop ran 100 times without a close midpoint and returned the last
C17_Witness ==
    /\ bs.pc = "ret" /\ bs.fn = "bs_implied_vol"
    /\ bs.st.i = 100 /\ ~bs.st.done /\ bs.ret = bs.st.vol_mid
    /\ ~BsWithin(bs.ret)

----------------------------------------------------------------------------
(* Claims about heston_call_fft and its cache (checked under SpecFFT)      *)

\* C2: two heston_call_fft calls with identical arguments return identical
\* prices whatever calls ran between them: a call that has returned agrees
\* with the remembered earlier call of the same arguments.
C2_SameArgumentsSamePrice ==
    (call.pc = "done" /\ hist.set /\ hist.a = call.a) => call.ret = hist.ret

\* init_fft_cache has just returned to heston_call_fft with the cache valid
InitReturnedValid == call.pc = "lookup"

\* C3: whenever init_fft_cache returns with the cache valid, the stored key
\* equals the requested (S, r, q, T, v0, kappa, theta, sigma, rho) and the
\* current (N, R, alpha, eta) within the tolerance, and the grid in the
\* arrays was built with the requested Heston parameters.
C3_ValidCacheHoldsRequestedKey ==
    InitReturnedValid =>
        LET c == glob.g_cache
            a == call.a
        IN /\ Within(glob, c.S, a.S, 1)
           /\ Within(glob, c.r, a.r, MilliUnits)
           /\ Within(glob, c.q, a.q, MilliUnits)
           /\ Within(glob, c.T, a.T, MilliUnits)
           /\ Within(glob, c.v0, a.v0, 10)
           /\ Within(glob, c.kappa, a.kappa, MilliUnits)
           /\ Within(glob, c.theta, a.theta, 10)
           /\ Within(glob, c.sigma, a.sigma, MilliUnits)
           /\ Within(glob, c.rho, a.rho, MilliUnits)
           /\ c.fft_n = glob.g_fft_n
           /\ Within(glob, c.log_strike_range, glob.g_log_strike_range, MilliUnits)
           /\ Within(glob, c.alpha, glob.g_alpha, MilliUnits)
           /\ Within(glob, c.eta, glob.g_eta, MilliUnits)
           /\ c.grid.state = "built"
           /\ c.grid.key.v0 = a.v0 /\ c.grid.key.kappa = a.kappa
           /\ c.grid.key.theta = a.theta /\ c.grid.key.sigma = a.sigma
           /\ c.grid.key.rho = a.rho

\* the call in progress has made its first init_fft_cache call, and that
\* call was a cache hit that rebuilt neither the grid nor the precomputation
\* table, after which heston_call_fft went on to the lookup
OnlyHit ==
    /\ Len(call.log) = 1
    /\ call.log[1].hit /\ ~call.log[1].built /\ ~call.log[1].precomputed

----------------------------------------------------------------------------
(* Claims about the calculate_sv_v5 process (checked under Spec)           *)

\* implied_vol_sv has returned to main
SvReturned ==
    /\ proc.pc \in {"finish", "exited"}
    /\ proc.src \in {"sv", "sv_poor", "sv_sanity", "sv_exception", "sv_anchor"}

\* C1: on every return path implied_vol_sv returns either a value in
\* [0.05, 1.5] or the negative sentinel.
C1_ResultInRangeOrSentinel ==
    SvReturned => \/ proc.iv = VolSentinel
                  \/ proc.iv >= 50 /\ proc.iv <= 1500

\* C5: no hardware fault raised after the handlers are installed ends as an
\* uncaught signal: the process is never killed by one and never stuck in
\* one.
C5_NoUncaughtFault == proc.pc \notin {"killed", "hung"}

\* the (N, alpha, eta) of an entry of call.log or proc.tried
IsConfig(e, n, alpha, eta) == e.n = n /\ e.alpha = alpha /\ e.eta = eta

C7_RejectedBeforeAnyComputation ==
    (proc.pc = "exited"
       /\ (proc.m <= 0 \/ proc.S <= 0 \/ proc.K <= 0 \/ proc.T <= 0))
    => /\ proc.exit_code = 1 /\ proc.stdout = <<>>
       /\ proc.tried = <<>> /\ call = CallIdle
       /\ glob.g_fft_n = Glob0.g_fft_n
       /\ glob.g_log_strike_range = Glob0.g_log_strike_range
       /\ glob.g_alpha = Glob0.g_alpha
       /\ glob.g_eta = Glob0.g_eta
       /\ glob.g_cache = Cache0
       /\ glob.g_precomputed = Precomputed0

----------------------------------------------------------------------------
(* Claims about the Black-Scholes anchor and the command line of           *)
(* calculate_sv_v5 (checked under Spec and SpecOpts)                       *)

\* the Black-Scholes anchor of implied_vol_sv failed on positive inputs
AnchorFailed ==
    /\ proc.pc \in {"finish", "exited"} /\ proc.src = "sv_anchor"
    /\ proc.m > 0 /\ proc.S > 0 /\ proc.K > 0 /\ proc.T > 0

\* C11: when the Black-Scholes anchor fails for positive inputs, the Heston
\* path returns sqrt(2*pi/T)*(m/S) if that lies in [0.05, 1.0] and 0.30
\* otherwise, never the sentinel.
C11_AnchorFailureSubstitutesApproximation ==
    AnchorFailed =>
        LET approx == atm_approx(proc.m, proc.S, proc.T)
        IN proc.iv = IF approx >= 50 /\ approx <= 1000 THEN approx ELSE 300

\* C12: a positional argument that is not a number or is out of range, in
\* any of the six positions, makes the binary exit with code 1 and print no
\* volatility.
C12_BadArgumentExitsWithoutOutput ==
    (proc.pc = "exited" /\ \E i \in 1..6 : proc.argv[i].kind = "junk")
    => proc.exit_code = 1 /\ proc.stdout = <<>>

\* the five options that set an FFT global, and the global each one sets
FftFlags == {"n", "r", "a", "e", "t"}

Setting(G, f) ==
    CASE f = "n" -> G.g_fft_n
      [] f = "r" -> G.g_log_strike_range
      [] f = "a" -> G.g_alpha
      [] f = "e" -> G.g_eta
      [] f = "t" -> G.g_cache_tolerance

\* the positions of the option words for setting f whose value is valid,
\* and of those whose value is not
ValidAt(f) ==
    {i \in 1..Len(proc.opts) : proc.opts[i].flag = f /\ option_valid(proc.opts[i])}

InvalidAt(f) ==
    {i \in 1..Len(proc.opts) : proc.opts[i].flag = f /\ ~option_valid(proc.opts[i])}

\* the environment variable of setting f is set to a valid value; is set to
\* a value that is not valid
EnvValid(f) == proc.env[f].kind # "unset" /\ option_valid(Opt(f, proc.env[f]))

EnvInvalid(f) == proc.env[f].kind # "unset" /\ ~option_valid(Opt(f, proc.env[f]))

\* option processing is over and main goes on to the positional words
OptionsDone == proc.pc = "start" /\ proc.optind = Len(proc.opts)

\* the value the last valid option word for f gives
FlagValue(f) ==
    LET last == CHOOSE i \in ValidAt(f) : \A j \in ValidAt(f) : j <= i
    IN atof(proc.opts[last].arg)

\* C13: after option processing each FFT setting has the value of the
\* command-line option when a valid one was given, otherwise the value of
\* its environment variable when that is set and valid, otherwise the
\* default.
C13_FlagThenEnvironmentThenDefault ==
    OptionsDone =>
        \A f \in FftFlags :
            Setting(glob, f) = IF ValidAt(f) # {} THEN FlagValue(f)
                               ELSE IF EnvValid(f) THEN atof(proc.env[f])
                               ELSE Setting(Glob0, f)

\* N is a power of two and the four scalars are positive
SettingsValid ==
    /\ is_power_of_two(glob.g_fft_n)
    /\ glob.g_log_strike_range > 0 /\ glob.g_alpha > 0 /\ glob.g_eta > 0
    /\ glob.g_cache_tolerance > 0

----------------------------------------------------------------------------
(* Claims about the grid search of implied_vol_sv (checked under Spec)     *)

\* The enumeration of section 4.7 Step 3 of the specification: the factors
\* of v0, kappa and sigma in percent, the offsets of rho in thousandths.
Step3V0 == <<70, 85, 100, 115, 130>>
Step3Kappa == <<50, 100, 150>>
Step3Sigma == <<80, 100, 120>>
Step3RhoOffset == <<0 - 200, 0 - 100, 0, 100, 200>>

\* the (sigma, rho) seed of Step 2: the moneyness tier, then the scaling of
\* sigma in the expiry
Step2Sigma(P) ==
    LET tier == IF 20 * P.K > 21 * P.S THEN 600
                ELSE IF 20 * P.K < 19 * P.S THEN 400 ELSE 500
    IN IF P.T > 1000 THEN (tier * 8) \div 10
       ELSE IF P.T < 100 THEN (tier * 13) \div 10 ELSE tier

Step2Rho(P) ==
    IF 20 * P.K > 21 * P.S THEN 0 - 750
    ELSE IF 20 * P.K < 19 * P.S THEN 0 - 500 ELSE 0 - 600

\* the i-th tuple (from 0) of Step 3: v0 outermost, then kappa, then sigma,
\* then rho innermost
Step3Tuple(P, i) ==
    [v0 |-> (P.sv.init_v0 * Step3V0[(i \div 45) + 1]) \div 100,
     kappa |-> (P.sv.init_kappa * Step3Kappa[((i \div 15) % 3) + 1]) \div 100,
     sigma |-> (Step2Sigma(P) * Step3Sigma[((i \div 5) % 3) + 1]) \div 100,
     rho |-> Max(0 - 900, Min(0, Step2Rho(P) + Step3RhoOffset[(i % 5) + 1]))]

\* C15: the tuple the grid search prices after i earlier ones is the i-th
\* tuple of the Step 3 order.
C15_EnumerationFollowsStep3 ==
    (proc.pc = "pricing" /\ call.pc = "enter") =>
        LET t == Step3Tuple(proc, proc.sv.idx)
        IN /\ call.a.v0 = t.v0 /\ call.a.kappa = t.kappa
           /\ call.a.sigma = t.sigma /\ call.a.rho = t.rho

\* C16: a calibration run prices at most 50 tuples before it stops.
C16_AtMostFiftyTuplesPriced == proc.sv.idx <= 50

\* the tuple priced last: the grid tuple before the count idx
LastTuple == GridTuple([proc EXCEPT !.sv.idx = @ - 1])

\* the best tuple of implied_vol_sv is the tuple t
BestIs(t) ==
    /\ proc.sv.best_v = t.v0 /\ proc.sv.best_kappa = t.kappa
    /\ proc.sv.best_theta = t.theta /\ proc.sv.best_sigma = t.sigma
    /\ proc.sv.best_rho = t.rho

\* the residual of the tuple heston_call_fft has just priced is below
\* 0.005 * m (200 times the residual, without leaving 32 bits)
ResidualBelowHalfPercent == Abs(call.ret - proc.m) <= (proc.m - 1) \div 200

\* once the search has stopped early, the tuple priced last is the best one
\* and its residual is below 0.005 * m
StoppedOnBest ==
    (proc.pc = "grid" /\ glob.g_found_good_match)
    => /\ proc.sv.idx >= 1 /\ BestIs(LastTuple)
       /\ proc.sv.best_diff <= (proc.m - 1) \div 200

\* the loop body sets the flag exactly on a residual below 0.005 * m, and
\* with the flag set no tuple is priced
StopsAtFirstGoodTuple ==
    /\ (proc.pc = "pricing" /\ proc'.pc = "grid")
         => (glob'.g_found_good_match <=> ResidualBelowHalfPercent)
    /\ (proc.pc = "grid" /\ glob.g_found_good_match) => proc'.pc # "pricing"

\* C18: the grid search stops at the first tuple, in the order the loops
\* enumerate them, whose residual |C_model - m| is below 0.005 * m: the
\* flag that ends the loops is raised by that tuple and by no earlier one,
\* no tuple is priced after it, and it is the best tuple when the loops end.
C18_StopsAtFirstGoodTuple ==
    []StoppedOnBest /\ [][StopsAtFirstGoodTuple]_vars

\* the search stopped early on a tuple that was not the first one priced
C18_Witness ==
    /\ proc.pc = "grid" /\ glob.g_found_good_match
    /\ proc.sv.idx > 1 /\ BestIs(LastTuple)

\* d is the least of the residuals seq
IsMinimum(seq, d) ==
    /\ \A k \in 1..Len(seq) : seq[k] >= d
    /\ \E k \in 1..Len(seq) : seq[k] = d

\* j is the position of the earliest residual of seq equal to d
IsEarliest(seq, d, j) ==
    /\ seq[j] = d
    /\ \A k \in 1..(j - 1) : seq[k] # d

\* the j-th tuple the loops price
TupleAt(j) == GridTuple([proc EXCEPT !.sv.idx = j - 1])

\* the search is between two tuples or has ended, after pricing at least one
SvSearched ==
    /\ proc.pc \in {"grid", "finish"}
    /\ proc.src \in {"none", "sv", "sv_poor", "sv_sanity"}
    /\ Len(proc.sv.resid) >= 1

\* C19: when the grid search ends (and after every tuple before that),
\* best_diff equals the minimum residual over all tuples priced and the best
\* tuple is the earliest tuple in enumeration order attaining it; the
\* volatility returned from the calibration is the square root of that
\* tuple's v0.
C19_BestIsEarliestMinimum ==
    SvSearched =>
        /\ Len(proc.sv.resid) = proc.sv.idx
        /\ IsMinimum(proc.sv.resid, proc.sv.best_diff)
        /\ \E j \in 1..Len(proc.sv.resid) :
              /\ IsEarliest(proc.sv.resid, proc.sv.best_diff, j)
              /\ BestIs(TupleAt(j))
              /\ proc.src = "sv" => proc.iv = Isqrt(TupleAt(j).v0)

\* the search ended with a best tuple that is neither the first nor the
\* last one priced, and a later tuple had the same residual
C19_Witness ==
    /\ proc.pc = "finish" /\ proc.src = "sv"
    /\ IsMinimum(proc.sv.resid, proc.sv.best_diff)
    /\ \E j \in 2..(Len(proc.sv.resid) - 1) :
          /\ IsEarliest(proc.sv.resid, proc.sv.best_diff, j)
          /\ \E k \in (j + 1)..Len(proc.sv.resid) :
                proc.sv.resid[k] = proc.sv.best_diff
          /\ BestIs(TupleAt(j))
          /\ proc.iv = Isqrt(TupleAt(j).v0)

----------------------------------------------------------------------------
(* The post-processing of implied_params in calculate_sv_v3.c, in          *)
(* thousandths of volatility                                               *)

\* strike_adjust, for moneyness = K / S
strike_adjust(S, K) ==
    IF 5 * K > 6 * S THEN (50 * (K \div 10000) - 60 * (S \div 10000)) \div (S \div 10000)
    ELSE IF 5 * K < 4 * S
    THEN (24 * (S \div 10000) - 30 * (K \div 10000)) \div (S \div 10000)
    ELSE 0

\* time_adjust
time_adjust(T) ==
    IF T < 100 THEN (20 * (100 - T)) \div 100
    ELSE IF T > 1000 THEN 0 - (10 * (T - 1000)) \div 1000
    ELSE 0

\* adjusted_sv_vol: sv_vol plus the two adjustments, clamped to [0.05, 1.5]
adjusted_sv_vol(sv_vol, S, K, T) ==
    Max(50, Min(1500, sv_vol + strike_adjust(S, K) + time_adjust(T)))

\* fmin(1.0, best_diff / market_price), in thousandths
diff_ratio(best_diff, market_price) ==
    IF best_diff >= market_price THEN 1000
    ELSE IF market_price < 2000000 THEN (1000 * best_diff) \div market_price
    ELSE best_diff \div (market_price \div 1000)

\* blended_vol: the weighted mean of adjusted_sv_vol and bs_iv, plus half
\* of the two adjustments
blended_vol(sv_vol, bs_iv, best_diff, market_price, S, K, T) ==
    LET blend_weight == 1000 - diff_ratio(best_diff, market_price)
    IN (blend_weight * adjusted_sv_vol(sv_vol, S, K, T)
          + (1000 - blend_weight) * bs_iv) \div 1000
       + (strike_adjust(S, K) + time_adjust(T)) \div 2

\* implied_vol_sv has returned past its loops
SvJudged ==
    proc.pc = "finish" /\ proc.src \in {"sv", "sv_poor", "sv_sanity"}

\* C20: the calibration is treated as poor exactly when the best residual
\* is strictly greater than 0.1 * m, and the value then returned is the
\* blend w * sigma_sv + (1 - w) * sigma_bs with w = 1 - min(1, residual / m)
\* plus half the skew adjustment, or sigma_bs when that lies outside
\* [0.05, 1.5].
C20_PoorCalibrationReturnsBlend ==
    SvJudged =>
        LET blend == blended_vol(Isqrt(proc.sv.best_v), proc.sv.bs_iv,
                                 proc.sv.best_diff, proc.m, proc.S, proc.K,
                                 proc.T)
        IN /\ (proc.src = "sv_poor") <=> (10 * proc.sv.best_diff > proc.m)
           /\ proc.src = "sv_poor"
                => proc.iv = IF blend < 50 \/ blend > 1500 THEN proc.sv.bs_iv
                             ELSE blend


----------------------------------------------------------------------------
(* Claims about the FFT configuration, the cache arrays and the fault      *)
(* handler                                                                  *)

\* the configuration adapt_fft_parameters selects for (S, K, T) is the one
\* the init_fft_cache call recorded as e ran under
AdaptedFor(e, S, K, T) ==
    /\ (10 * K > 15 * S \/ 10 * K < 7 * S) => (e.n = 8192 /\ e.R = 4000)
    /\ T < 100 => (e.eta = 25 /\ e.alpha = 1250)
    /\ T > 2000 => e.eta = 100

\* C21: before any FFT build for an option with K/S > 1.5 or K/S < 0.7, N
\* is 8192 and R is 4.0; with T < 0.1, eta is 0.025 and alpha 1.25; with
\* T > 2.0, eta is 0.1, whatever the Heston parameters of the call: every
\* init_fft_cache call that did not hit the cache ran under that
\* configuration.
C21_EveryBuildUnderAdaptedConfiguration ==
    \A i \in 1..Len(call.log) :
        ~call.log[i].hit => AdaptedFor(call.log[i], call.a.S, call.a.K, call.a.T)

----------------------------------------------------------------------------
(* Claims about get_cached_option_price and the Simpson weights (checked   *)
(* under SpecArrays)                                                       *)

\* get_cached_option_price has returned from a valid cache whose strikes
\* are strictly ascending
LookupReturned ==
    /\ arr.fn = "get_cached_option_price" /\ arr.pc \in {"ret", "returned"}
    /\ arr.is_valid
    /\ \A j \in 1..(Len(arr.strikes) - 1) : arr.strikes[j] < arr.strikes[j + 1]

\* the strike asked for is at or outside an end of the cached strikes, and
\* the price at that end is returned
EndPriceReturned ==
    /\ arr.K <= arr.strikes[1] => arr.ret = arr.prices[1]
    /\ arr.K >= arr.strikes[Len(arr.strikes)]
         => arr.ret = arr.prices[Len(arr.prices)]

LookupInside ==
    arr.K > arr.strikes[1] /\ arr.K < arr.strikes[Len(arr.strikes)]

\* the search ended on adjacent indices that bracket K
BracketFound ==
    /\ arr.idx_high = arr.idx_low + 1
    /\ arr.idx_low >= 0 /\ arr.idx_high <= Len(arr.strikes) - 1
    /\ arr.strikes[arr.idx_low + 1] < arr.K
    /\ arr.K <= arr.strikes[arr.idx_high + 1]

BracketFinite ==
    /\ isfinite(arr.prices[arr.idx_low + 1])
    /\ isfinite(arr.prices[arr.idx_high + 1])

\* ret is the value at K of the line through (K_low, price_low) and
\* (K_high, price_high), rounded down to a whole unit, and lies between the
\* two prices
LinearBetween ==
    LET K_low == arr.strikes[arr.idx_low + 1]
        K_high == arr.strikes[arr.idx_high + 1]
        price_low == arr.prices[arr.idx_low + 1]
        price_high == arr.prices[arr.idx_high + 1]
        rise == (arr.K - K_low) * (price_high - price_low)
    IN /\ (arr.ret - price_low) * (K_high - K_low) <= rise
       /\ rise < (arr.ret - price_low + 1) * (K_high - K_low)
       /\ arr.ret >= Min(price_low, price_high)
       /\ arr.ret <= Max(price_low, price_high)

\* C22 as amended: on a valid cache with strictly ascending strikes,
\* get_cached_option_price returns prices[0] for K <= strikes[0] and
\* prices[N-1] for K >= strikes[N-1]; otherwise its binary search ends on
\* adjacent indices i, i+1 with strikes[i] < K <= strikes[i+1], and it
\* returns the linear interpolation in K between prices[i] and prices[i+1],
\* a value between the two, when both are finite, and -1.0 when one is not.
C22_LookupInterpolatesFiniteBracket ==
    LookupReturned =>
        /\ EndPriceReturned
        /\ LookupInside =>
             /\ BracketFound
             /\ IF BracketFinite THEN LinearBetween
                ELSE arr.ret = PriceSentinel

\* a strike strictly between two cached strikes with different finite
\* prices got a price strictly between them
C22_Witness ==
    /\ LookupReturned /\ LookupInside /\ BracketFound /\ BracketFinite
    /\ arr.K < arr.strikes[arr.idx_high + 1]
    /\ arr.ret > arr.prices[arr.idx_low + 1]
    /\ arr.ret < arr.prices[arr.idx_high + 1]
    /\ Len(arr.strikes) > 2

\* C22: on a valid cache with strictly ascending strikes,
\* get_cached_option_price returns prices[0] for K <= strikes[0],
\* prices[N-1] for K >= strikes[N-1], and otherwise the linear
\* interpolation between the prices at the adjacent strikes that bracket K,
\* a value between those two prices (the interpolation of a non-finite
\* price being non-finite).
C22_LookupInterpolates ==
    LookupReturned =>
        /\ EndPriceReturned
        /\ LookupInside =>
             /\ BracketFound
             /\ IF BracketFinite THEN LinearBetween ELSE ~isfinite(arr.ret)

\* heston_call_fft has returned after a lookup on a valid cache
LookupAnswered == LookupReturned /\ arr.pc = "returned"

\* the cached price returned for a strike at or outside an end of the grid
EndPrice ==
    IF arr.K <= arr.strikes[1] THEN arr.prices[1]
    ELSE arr.prices[Len(arr.prices)]

\* a cached price used to answer the query is not finite
UsedNonFinite ==
    IF LookupInside THEN ~BracketFinite ELSE ~isfinite(EndPrice)

\* heston_call_fft returned the Black-Scholes price at sqrt(v0), a finite
\* price that is not the sentinel
FellBack ==
    /\ arr.call_ret = black_scholes_call(arr.a.S, arr.a.K, arr.a.T, arr.a.r,
                                         arr.a.q, Isqrt(arr.a.v0))
    /\ isfinite(arr.call_ret) /\ arr.call_ret # PriceSentinel

\* C23 as amended: if a cached price used to answer a query is non-finite,
\* the lookup returns the sentinel -1.0 for a strike inside the grid and the
\* non-finite end price itself for a strike at or outside an end of it; in
\* both cases heston_call_fft falls back to the Black-Scholes price at
\* sqrt(v0), and it never returns a non-finite or sentinel price taken from
\* the cache.
C23_NonFinitePriceFallsBack ==
    LookupAnswered =>
        /\ isfinite(arr.call_ret) /\ arr.call_ret # PriceSentinel
        /\ UsedNonFinite =>
             /\ FellBack
             /\ arr.ret = IF LookupInside THEN PriceSentinel ELSE EndPrice

\* a strike beyond the last cached one, whose price is not finite: the
\* lookup returned that price and heston_call_fft fell back
C23_Witness ==
    /\ LookupAnswered /\ FellBack
    /\ arr.K > arr.strikes[Len(arr.strikes)]
    /\ ~isfinite(arr.prices[Len(arr.prices)])
    /\ arr.ret = arr.prices[Len(arr.prices)]

\* C23: if a cached price used to answer a query is non-finite, the lookup
\* signals CacheCorrupt (the sentinel -1.0) and heston_call_fft falls back to
\* the Black-Scholes price at sqrt(v0); heston_call_fft never returns a
\* non-finite or sentinel price taken from the cache, for interior and for
\* boundary strikes alike.
C23_NonFinitePriceSignalsCorrupt ==
    LookupAnswered =>
        /\ isfinite(arr.call_ret) /\ arr.call_ret # PriceSentinel
        /\ UsedNonFinite => (arr.ret = PriceSentinel /\ FellBack)

\* C24: the Simpson weight array of length N has the values 1/3, 4/3, 2/3,
\* ..., 4/3, 1/3: the first and the last weight are 1/3, interior odd
\* indices carry 4/3 and interior even indices 2/3 (weights in thirds).
C24_SimpsonWeightsEndInOneThird ==
    (arr.fn = "precompute_fft_values" /\ arr.pc = "ret") =>
        /\ Len(arr.simpson_weights) = arr.n
        /\ arr.simpson_weights[1] = 1
        /\ arr.simpson_weights[arr.n] = 1
        /\ \A i \in 1..(arr.n - 2) :
             arr.simpson_weights[i + 1] = IF i % 2 = 1 THEN 4 ELSE 2

\* b was released once if it was obtained, and never otherwise
ReleasedOnce(b) == b.released = IF b.made THEN 1 ELSE 0

\* C25: every FFT input/output buffer and FFT plan allocated by
\* init_fft_cache is released exactly once before init_fft_cache returns, on
\* every path: successful build, precomputation failure, plan-creation
\* failure and caught fault.
C25_BuffersAndPlanReleasedOnce ==
    (arr.fn = "init_fft_cache" /\ arr.pc = "returned") =>
        /\ ReleasedOnce(arr.in)
        /\ ReleasedOnce(arr.out)
        /\ ReleasedOnce(arr.plan)


\* C26: in any sequence of init_fft_cache calls interleaved with changes of
\* the FFT configuration and failed builds, every index written in the
\* strike and price arrays is below the length they were allocated with.
C26_EveryWriteBelowAllocatedLength == ~glob.overflow


\* C27: whenever the cache is valid, num_strikes, the grid size in the cache
\* tag, the allocated length of the strike array and of the price array, and
\* the number of entries the validating build filled are all equal; so every
\* entry the binary search can read was written by that build.
C27_ValidCacheLengthsAgree ==
    LET c == glob.g_cache
    IN c.is_valid =>
         /\ c.num_strikes = c.fft_n
         /\ c.prices = c.fft_n
         /\ c.strikes = c.fft_n
         /\ c.grid.state = "built"
         /\ c.grid.filled = c.fft_n


\* C28: whenever init_fft_cache returns without completing a build (a failed
\* allocation of the cache arrays or of the FFT buffers, a failed
\* precomputation, a failed plan creation, or a caught fault), the cache is
\* marked invalid, so that heston_call_fft enters its retry ladder and never
\* interpolates from entries built for an earlier key or configuration.
C28_UnfinishedBuildInvalidatesCache ==
    \A i \in 1..Len(call.log) :
        LET e == call.log[i]
        IN (~e.hit /\ ~e.built) => ~e.valid


\* C29: whenever g_using_error_handler is true, g_error_jmp_buf was last set
\* by a setjmp in a frame that is still active (main, implied_vol_sv,
\* init_fft_cache or precompute_fft_values), so error_handler never jumps
\* into a frame that has returned.
C29_HandlerFlagImpliesLiveJumpBuffer ==
    glob.g_using_error_handler =>
        /\ glob.g_error_jmp_buf.live
        /\ glob.g_error_jmp_buf.frame \in
             {"main", "implied_vol_sv", "init_fft_cache", "precompute_fft_values"}


----------------------------------------------------------------------------
(* Claims about the bisection interval of bs_implied_vol (checked under    *)
(* SpecBS)                                                                 *)

\* bs_implied_vol is in its loop
BisectionRunning == bs.fn = "bs_implied_vol" /\ bs.pc = "loop"

\* bs_implied_vol has returned a volatility
BisectionReturned ==
    bs.fn = "bs_implied_vol" /\ bs.pc = "ret" /\ bs.ret # VolSentinel

\* the Black-Scholes price of the option being solved at volatility v
BisectionPrice(v) ==
    black_scholes_call(bs.a.S, bs.a.K, bs.a.T, bs.a.r, bs.a.q, v)

\* the interval lies in [0.001, 2.0], is not empty, and brackets the market
\* price
BisectionBracket ==
    /\ vol_low_init <= bs.st.vol_low
    /\ bs.st.vol_low < bs.st.vol_high
    /\ bs.st.vol_high <= vol_high_init
    /\ BisectionPrice(bs.st.vol_low) < bs.a.m
    /\ BisectionPrice(bs.st.vol_high) >= bs.a.m

BisectionWidth(st) == st.vol_high - st.vol_low

\* width w became half of itself, to the resolution of the arithmetic
Halved(w, v) == v < w /\ 2 * v <= w + 1 /\ 2 * v >= w - 1

\* every returned volatility lies strictly between 0.001 and 2.0
ReturnStrictlyInside ==
    BisectionReturned => (vol_low_init < bs.ret /\ bs.ret < vol_high_init)

====
